---- MODULE Spec2Model ----
(***************************************************************************)
(* Model of the SiteVouch background service worker (src/sw.js): the       *)
(* in-memory task queue, the scheduler loop processQueue with its          *)
(* suspension points, the cache in chrome.storage.local and the settings   *)
(* in chrome.storage.sync.                                                 *)
(*                                                                         *)
(* Time is counted in seconds: TLC integers are 32 bit and 30 days do not  *)
(* fit in milliseconds.  Delays are computed in milliseconds exactly as    *)
(* the code does and are divided by 1000 where they are added to the       *)
(* clock.                                                                  *)
(***************************************************************************)
EXTENDS Integers, Sequences, FiniteSets, TLC

\* ------------------------------------------------------------------------
\* Bounds of the model
\* ------------------------------------------------------------------------
MaxEnqueues == 2      \* Tasks created by addToQueue in one run
MaxLoops == 2         \* processQueue invocations / timers alive at once
MaxAttempts == 18     \* retryAttempts values above this are merged
Max503 == 2           \* consecutive 503 answers for one Task in Spec
MaxElapsed == 700     \* seconds of clock the model tracks after start
MaxTicks == 3         \* seconds the clock advances in CacheSpec
MaxVisits == 2        \* largest visit count of a source record in SourcesSpec
MaxProviders == 3     \* largest stored maxProviders in SourcesSpec

Hosts == {"a.com", "b.com", "c.com"}
TwoHosts == {"a.com", "b.com"}
TabIds == {1, 2}

\* ------------------------------------------------------------------------
\* Program constants (src/sw.js:3-4), in seconds
\* ------------------------------------------------------------------------
CACHE_STALE_MS == 7 * 24 * 60 * 60
CACHE_EXPIRE_MS == 30 * 24 * 60 * 60

StartTime == CACHE_EXPIRE_MS + 2
Horizon == StartTime + MaxElapsed

Null == [null |-> TRUE]
NoError == "null"

Min(a, b) == IF a < b THEN a ELSE b
Max(a, b) == IF a > b THEN a ELSE b

VARIABLES
    queryQueue,          \* sw.js:7   sequence of Tasks
    currentTask,         \* sw.js:9   Task or Null
    lastError,           \* sw.js:10  message or NoError
    cache,               \* chrome.storage.local: hostname -> entry or Null
    geminiApiKey,        \* chrome.storage.sync: TRUE iff a key is stored
    sources,             \* chrome.storage.sync: sequence of source records
    lastSettingsChange,  \* chrome.storage.sync: 0 when never written
    now,                 \* Date.now()
    loops,               \* suspended processQueue invocations and timers
    lastBroadcast,       \* payload of the last STATUS_UPDATE, or Null
    lastPush,            \* last updateBadgeForRating call, or Null
    nextSeq,             \* history: number of Tasks created so far + 1
    served,              \* history: seq of the Tasks shifted into the slot
    pending,             \* sw.js:470-480  suspended GET_STATUS handler, or Null
    delivered,           \* sw.js:482  last GET_STATUS response, or Null
    seen                 \* history: scheduler states passed, {} when not kept

vars == <<queryQueue, currentTask, lastError, cache, geminiApiKey, sources,
          lastSettingsChange, now, loops, lastBroadcast, lastPush, nextSeq,
          served, pending, delivered, seen>>

schedVars == <<queryQueue, currentTask, lastError>>
storeVars == <<cache, geminiApiKey, sources, lastSettingsChange>>
histVars == <<nextSeq, served>>
statusVars == <<pending, delivered, seen>>

\* ------------------------------------------------------------------------
\* Cache logic
\* ------------------------------------------------------------------------
Entry_unstamped(h, t, reviews, isSource, meta) ==
    [hostname |-> h, timestamp |-> 0, reviews |-> reviews,
     isSource |-> isSource, groundingMetadata |-> meta]

\* the object written by saveToCache (sw.js:126-132)
Entry(h, t, reviews, isSource, meta) ==
    [hostname |-> h, timestamp |-> t, reviews |-> reviews,
     isSource |-> isSource, groundingMetadata |-> meta]

IsStale_ageOnly(age, timestamp, globalSettingsTs) == age > CACHE_STALE_MS

IsStale_atLeast(age, timestamp, globalSettingsTs) ==
    (age >= CACHE_STALE_MS) \/ timestamp < globalSettingsTs

IsStale_always(age, timestamp, globalSettingsTs) == TRUE

\* entry.isStale (sw.js:117-120)
IsStale(age, timestamp, globalSettingsTs) ==
    LET settingsStale == timestamp < globalSettingsTs
    IN (age > CACHE_STALE_MS) \/ settingsStale

\* getFromCache (sw.js:98-122): the value returned and whether the key is
\* removed.  The two storage reads are taken at one instant.
getFromCache(c, lsc, t, h) ==
    LET entry == c[h] IN
    IF entry = Null THEN [value |-> Null, remove |-> FALSE]
    ELSE LET globalSettingsTs == lsc
             age == t - entry.timestamp
         IN IF age > CACHE_EXPIRE_MS
            THEN [value |-> Null, remove |-> TRUE]
            ELSE [value |-> [hostname |-> entry.hostname,
                                timestamp |-> entry.timestamp,
                                reviews |-> entry.reviews,
                                isSource |-> entry.isSource,
                                groundingMetadata |-> entry.groundingMetadata,
                                isStale |-> IsStale(age, entry.timestamp,
                                                    globalSettingsTs)],
                  remove |-> FALSE]

CacheAfterGet_keep(c, lsc, t, h) == c

\* chrome.storage.local after getFromCache (sw.js:110-113)
CacheAfterGet(c, lsc, t, h) ==
    IF getFromCache(c, lsc, t, h).remove THEN [c EXCEPT ![h] = Null] ELSE c

saveToCache_skip(c, t, h, reviews, isSource, meta) == c

\* saveToCache (sw.js:124-135)
saveToCache(c, t, h, reviews, isSource, meta) ==
    [c EXCEPT ![h] = Entry(h, t, reviews, isSource, meta)]

\* A key of chrome.storage.local that is not a cache key, and its value
OtherKey == "installed"
OtherValue == [timestamp |-> 1]
Keys == Hosts \cup {OtherKey}

\* key.startsWith('cache_') (sw.js:143): cache keys are named by hostname
IsCacheKey(k) == k \in Hosts

pruneCache_all(c, t) ==
    [k \in DOMAIN c |->
        IF c[k] # Null /\ t - c[k].timestamp > CACHE_EXPIRE_MS
        THEN Null ELSE c[k]]

\* pruneCache (sw.js:137-153): chrome.storage.local after the sweep
pruneCache(c, t) ==
    [k \in DOMAIN c |->
        IF /\ c[k] # Null
           /\ IsCacheKey(k) /\ c[k].timestamp # 0
           /\ t - c[k].timestamp > CACHE_EXPIRE_MS
        THEN Null ELSE c[k]]

\* ------------------------------------------------------------------------
\* Source registry
\* ------------------------------------------------------------------------
\* hostname.endsWith('.' + domain) on the host names of the model: the only
\* name that ends with a dot and another name is www.x.org
EndsWithDot(h, d) == h = "www.x.org" /\ d = "x.org"

SourceExists_never(srcs, h) == FALSE

\* the auto-add existence test (sw.js:361)
SourceExists(srcs, h) ==
    \E i \in 1..Len(srcs) : srcs[i].domain = h \/ EndsWithDot(h, srcs[i].domain)

\* A source record; an element of a legacy list is a plain string,
\* written here as a record with the single field string.
Source(d, st, v) == [domain |-> d, state |-> st, visits |-> v]
Legacy(d) == [string |-> d]
IsString(x) == DOMAIN x = {"string"}

\* The value of a sources key that was never stored (undefined), written as
\* a list so that it can be compared with the stored lists
Absent == <<[undefined |-> TRUE]>>
IsAbsent(srcs) == Len(srcs) = 1 /\ DOMAIN srcs[1] = {"undefined"}

MapLegacy_auto(srcs) ==
    [i \in 1..Len(srcs) |-> Source(srcs[i].string, "auto", 0)]

\* sources.map(s => ({domain: s, state: 'on', visits: 0})) (sw.js:58-62)
RECURSIVE MapLegacy(_)
MapLegacy(srcs) ==
    IF Len(srcs) = 0 THEN <<>>
    ELSE <<Source(Head(srcs).string, "on", 0)>> \o MapLegacy(Tail(srcs))

migrateSources_bump(srcs) ==
    IF IsAbsent(srcs) \/ Len(srcs) = 0 THEN <<>>
    ELSE IF IsString(srcs[1]) THEN MapLegacy(srcs)
    ELSE [i \in 1..Len(srcs) |-> [srcs[i] EXCEPT !.visits = @ + 1]]

\* migrateSources (sw.js:55-65)
migrateSources(srcs) ==
    IF IsAbsent(srcs) \/ Len(srcs) = 0 THEN <<>>
    ELSE IF IsString(srcs[1]) THEN MapLegacy(srcs)
    ELSE srcs

\* stateOrder (sw.js:71)
StateOrder(st) == IF st = "on" THEN 0 ELSE IF st = "auto" THEN 1 ELSE 2

Compare_ascending(a, b) ==
    IF StateOrder(a.state) # StateOrder(b.state)
    THEN StateOrder(a.state) - StateOrder(b.state)
    ELSE a.visits - b.visits

\* the comparator of the sort (sw.js:72-77)
Compare(a, b) ==
    IF StateOrder(a.state) # StateOrder(b.state)
    THEN StateOrder(a.state) - StateOrder(b.state)
    ELSE b.visits - a.visits

\* x put into the sorted sequence s behind every element that does not
\* compare greater: Array.prototype.sort is stable
RECURSIVE Insert(_, _)
Insert(s, x) ==
    IF Len(s) = 0 THEN <<x>>
    ELSE IF Compare(Head(s), x) > 0 THEN <<x>> \o s
    ELSE <<Head(s)>> \o Insert(Tail(s), x)

\* [...sources].sort(comparator) (sw.js:72)
RECURSIVE SortSources(_)
SortSources(srcs) ==
    IF Len(srcs) = 0 THEN <<>>
    ELSE Insert(SortSources(SubSeq(srcs, 1, Len(srcs) - 1)), srcs[Len(srcs)])

IsOn(x) == x.state = "on"
IsAuto(x) == x.state = "auto"

getActiveSources_autoLimit(sourcesRaw, maxProviders) ==
    LET sorted == SortSources(migrateSources(sourcesRaw))
        onSources == SelectSeq(sorted, IsOn)
        autoSources == SelectSeq(sorted, IsAuto)
        chosen == onSources \o SubSeq(autoSources, 1,
                                      Min(Max(0, maxProviders), Len(autoSources)))
    IN [i \in 1..Len(chosen) |-> chosen[i].domain]

\* getActiveSources (sw.js:67-92)
getActiveSources(sourcesRaw, maxProviders) ==
    LET srcs == migrateSources(sourcesRaw)
        sorted == SortSources(srcs)
        onSources == SelectSeq(sorted, IsOn)
        autoSources == SelectSeq(sorted, IsAuto)
        remainingSlots == Max(0, maxProviders - Len(onSources))
        activeAuto == SubSeq(autoSources, 1, Min(remainingSlots, Len(autoSources)))
        chosen == onSources \o activeAuto
    IN [i \in 1..Len(chosen) |-> chosen[i].domain]

Matches_exact(h, s) == h = s.domain

\* the match of checkAndIncrementVisits (sw.js:394-396)
Matches(h, s) ==
    h = s.domain \/ EndsWithDot(h, s.domain) \/ EndsWithDot(s.domain, h)

\* migrated.findIndex(...) (sw.js:394), 0 for -1
MatchIndex(migrated, h) ==
    IF \E i \in 1..Len(migrated) : Matches(h, migrated[i])
    THEN CHOOSE i \in 1..Len(migrated) :
            Matches(h, migrated[i]) /\ \A j \in 1..(i - 1) : ~Matches(h, migrated[j])
    ELSE 0

\* The sources key after checkAndIncrementVisits (sw.js:383-407): written
\* only when a record matches
VisitedSources(srcs, h) ==
    LET migrated == migrateSources(srcs)
        matchIndex == MatchIndex(migrated, h)
    IN IF matchIndex # 0
       THEN [migrated EXCEPT ![matchIndex].visits = @ + 1]
       ELSE srcs

\* "maxProviders || 20" (sw.js:255); 0 stands for a value never stored
LimitProviders(maxProviders) == IF maxProviders = 0 THEN 20 ELSE maxProviders

\* ------------------------------------------------------------------------
\* Tasks
\* ------------------------------------------------------------------------
NewTask(h, f, t, s) ==
    [hostname |-> h, forceRefresh |-> f, tabId |-> t,
     retryAttempts |-> 0, nextRetryTime |-> 0, seq |-> s]

IsProcessing_never(cur, hostname) == FALSE

\* the test for the Task being processed in addToQueue (sw.js:170)
IsProcessing(cur, hostname) == cur # Null /\ cur.hostname = hostname

\* "if (forceRefresh) ...forceRefresh = true" (sw.js:164)
MergeForce(old, forceRefresh) == IF forceRefresh THEN TRUE ELSE old

\* "if (tabId) ...tabId = tabId" (sw.js:165, sw.js:171)
MergeTab(old, tabId) == IF tabId # 0 THEN tabId ELSE old

Push_front(q, task) == <<task>> \o q

\* queryQueue.push (sw.js:175)
Push(q, task) == Append(q, task)

IsRetryable_5xx(error) == error.status >= 500

\* "error.status === 503" (sw.js:213)
IsRetryable(error) == error.status = 503

\* queryQueue.findIndex(item => item.hostname === hostname), 0 for -1
FindIndex(q, h) ==
    IF \E i \in 1..Len(q) : q[i].hostname = h
    THEN CHOOSE i \in 1..Len(q) :
            q[i].hostname = h /\ \A j \in 1..(i - 1) : q[j].hostname # h
    ELSE 0

BackoffDelay_uncapped(retryAttempts) ==
    IF retryAttempts = 0 THEN 0 ELSE 5000 * 2^(retryAttempts - 1)

\* Exponential backoff in milliseconds (sw.js:217)
BackoffDelay(retryAttempts) ==
    IF retryAttempts = 0 THEN 0
    ELSE Min(5000 * 2^(retryAttempts - 1), 300000)

IncAttempts_twice(n) == IF n < MaxAttempts THEN n + 2 ELSE n

\* currentTask.retryAttempts++ (sw.js:222); values above MaxAttempts merged
IncAttempts(n) == IF n < MaxAttempts THEN n + 1 ELSE n

updateBadgeForRating_firstTab(last, tabId, reviews) ==
    [tabId |-> 1, reviews |-> reviews]

\* updateBadgeForRating (sw.js:19-49): the badge call recorded, none when
\* tabId is missing
updateBadgeForRating(last, tabId, reviews) ==
    IF tabId = 0 THEN last ELSE [tabId |-> tabId, reviews |-> reviews]

Payload(q, c, e) == [queue |-> q, currentTask |-> c, lastError |-> e]

Idle == [pc |-> "idle"]

\* The object a GET_STATUS handler holds in qStatus.currentTask (sw.js:473)
\* is the Task itself: it shows the changes made to it while it is active.
Follow(task, cur) ==
    IF task # Null /\ cur # Null /\ cur.seq = task.seq THEN cur ELSE task

\* No GET_STATUS request has been made and no history is kept.
NoStatus == pending = Null /\ delivered = Null /\ seen = {}

\* A step of the scheduler seen from a suspended GET_STATUS handler; the
\* state reached joins the history where one is kept.
Observe ==
    /\ pending' = IF pending = Null THEN Null
                  ELSE [pending EXCEPT !.task = Follow(@, currentTask')]
    /\ delivered' = delivered
    /\ seen' = IF seen = {} THEN {}
               ELSE seen \cup {Payload(queryQueue', currentTask', lastError')}

ChecksCache_always(task) == TRUE

\* "if (!currentTask.forceRefresh)" (sw.js:189)
ChecksCache(task) == ~task.forceRefresh

Enter_return(q, cur) ==
    [queue |-> q, cur |-> cur, loop |-> Idle, bcast |-> FALSE, shifted |-> FALSE]

\* The synchronous prefix of processQueue (sw.js:181-199): up to the first
\* await.  Gives the queue, the slot, the suspended invocation and whether
\* broadcastStatus ran (sw.js:186).
Enter(q, cur) ==
    IF cur = Null /\ Len(q) = 0
    THEN [queue |-> q, cur |-> cur, loop |-> Idle, bcast |-> FALSE, shifted |-> FALSE]
    ELSE LET c == IF cur = Null THEN Head(q) ELSE cur
             q2 == IF cur = Null THEN Tail(q) ELSE q
         IN [queue |-> q2, cur |-> c, bcast |-> TRUE, shifted |-> (cur = Null),
             loop |-> IF ChecksCache(c)
                      THEN [pc |-> "getCache", host |-> c.hostname]
                      ELSE [pc |-> "settings", host |-> c.hostname]]

Served(e) == IF e.shifted THEN Append(served, e.cur.seq) ELSE served

FreeSlots == {i \in 1..MaxLoops : loops[i] = Idle}
FreeSlot == CHOOSE i \in FreeSlots : \A j \in FreeSlots : i <= j

\* ------------------------------------------------------------------------
\* Initial state: the service worker has just started.  Memory is empty;
\* storage holds whatever earlier runs left.
\* ------------------------------------------------------------------------
InitEntries(h) ==
    IF h = "a.com"
    THEN {Null} \cup {Entry(h, StartTime - a, <<"old">>, FALSE, "m0") :
                        a \in {1, CACHE_STALE_MS + 1}}
    ELSE {Null}

Init ==
    /\ queryQueue = <<>>
    /\ currentTask = Null
    /\ lastError = NoError
    /\ cache \in {c \in [Hosts -> UNION {InitEntries(h) : h \in Hosts}] :
                    \A h \in Hosts : c[h] \in InitEntries(h)}
    /\ geminiApiKey \in BOOLEAN
    /\ sources = <<>>
    /\ lastSettingsChange = 0
    /\ now = StartTime
    /\ loops = [i \in 1..MaxLoops |-> Idle]
    /\ lastBroadcast = Null
    /\ lastPush = Null
    /\ nextSeq = 1
    /\ served = <<>>
    /\ NoStatus

\* ------------------------------------------------------------------------
\* Upstream responses seen by performGeminiQuery (sw.js:330-355)
\*   ok        fetch resolved (FALSE: it rejected, no response)
\*   status    response.status
\*   bodyJson  response.json() parses
\*   textJson  JSON.parse(text) of the candidate text parses
\* ------------------------------------------------------------------------
Response(ok, status, bodyJson, textJson, isSource, reviews) ==
    [ok |-> ok, status |-> status, bodyJson |-> bodyJson, textJson |-> textJson,
     isSource |-> isSource, reviews |-> reviews, meta |-> "m1"]

Responses ==
    {Response(FALSE, 0, FALSE, FALSE, FALSE, <<>>)}
    \cup {Response(TRUE, s, b, FALSE, FALSE, <<>>) : s \in {500, 503}, b \in BOOLEAN}
    \cup {Response(TRUE, 200, FALSE, FALSE, FALSE, <<>>),
          Response(TRUE, 200, TRUE, FALSE, FALSE, <<>>)}
    \cup {Response(TRUE, 200, TRUE, TRUE, i, r) :
            i \in BOOLEAN, r \in {<<"new">>}}

Err(status, message) == [status |-> status, message |-> message]

Thrown_never(r) == Null

\* What performGeminiQuery throws for a response, Null when it does not
\* throw (sw.js:330-355).  status 0 stands for an error without status.
Thrown(r) ==
    IF ~r.ok THEN Err(0, "Failed to fetch")
    ELSE IF ~r.bodyJson THEN Err(0, "SyntaxError")
    ELSE IF r.status # 200
         THEN Err(r.status, IF r.status = 503 THEN "API Error: 503"
                            ELSE "API Error: 500")
    ELSE IF ~r.textJson THEN Err(0, "SyntaxError")
    ELSE Null

\* ------------------------------------------------------------------------
\* addToQueue (sw.js:159-178)
\* ------------------------------------------------------------------------
SlotFree_always(cur) == TRUE

\* "if (!currentTask) processQueue();" (sw.js:176)
SlotFree(cur) == cur = Null

\* the effect of the call on the queue, the slot and the loop
Enqueued(hostname, forceRefresh, tabId) ==
    LET existingIndex == FindIndex(queryQueue, hostname) IN
    IF existingIndex # 0
    THEN /\ queryQueue' =
                [queryQueue EXCEPT ![existingIndex] =
                    [@ EXCEPT !.forceRefresh = MergeForce(@, forceRefresh),
                              !.tabId = MergeTab(@, tabId)]]
         /\ UNCHANGED <<currentTask, loops, lastBroadcast, histVars>>
    ELSE IF IsProcessing(currentTask, hostname)
    THEN /\ currentTask' =
                [currentTask EXCEPT !.tabId = MergeTab(@, tabId)]
         /\ UNCHANGED <<queryQueue, loops, lastBroadcast, histVars>>
    ELSE /\ LET pushed == Push(queryQueue,
                               NewTask(hostname, forceRefresh, tabId, nextSeq))
                e == IF SlotFree(currentTask)
                     THEN Enter(pushed, currentTask)
                     ELSE [queue |-> pushed, cur |-> currentTask, loop |-> Idle,
                           bcast |-> FALSE, shifted |-> FALSE]
            IN /\ SlotFree(currentTask) => FreeSlots # {}
               /\ queryQueue' = e.queue
               /\ currentTask' = e.cur
               /\ loops' = IF SlotFree(currentTask)
                           THEN [loops EXCEPT ![FreeSlot] = e.loop]
                           ELSE loops
               /\ lastBroadcast' = Payload(e.queue, e.cur, lastError)
               /\ served' = Served(e)
               /\ nextSeq' = nextSeq + 1

addToQueue(hostname, forceRefresh, tabId) ==
    /\ Enqueued(hostname, forceRefresh, tabId)
    /\ UNCHANGED <<lastError, storeVars, now, lastPush>>
    /\ Observe

\* ------------------------------------------------------------------------
\* processQueue (sw.js:180-234), one action per resumption
\* ------------------------------------------------------------------------

\* "currentTask = null; processQueue();" (sw.js:193-194, 205-206, 230-231)
\* followed by broadcastStatus when final is TRUE; err is the new lastError
ClearAndRecurse(i, err, final) ==
    LET e == Enter(queryQueue, Null) IN
    /\ queryQueue' = e.queue
    /\ currentTask' = e.cur
    /\ lastError' = err
    /\ loops' = [loops EXCEPT ![i] = e.loop]
    /\ lastBroadcast' = IF final \/ e.bcast
                        THEN Payload(e.queue, e.cur, err)
                        ELSE lastBroadcast
    /\ served' = Served(e)

\* the catch block (sw.js:210-233)
Catch(i, error) ==
    IF IsRetryable(error)
    THEN IF currentTask = Null
         THEN \* TypeError inside the catch block: the invocation dies
              /\ loops' = [loops EXCEPT ![i] = Idle]
              /\ UNCHANGED <<schedVars, lastBroadcast, served>>
         ELSE LET attempts == currentTask.retryAttempts
                  delay == BackoffDelay(attempts)
                  t == [currentTask EXCEPT
                            !.nextRetryTime = now + (delay \div 1000),
                            !.retryAttempts = IncAttempts(attempts)]
              IN /\ currentTask' = t
                 /\ lastBroadcast' = Payload(queryQueue, t, lastError)
                 /\ loops' = [loops EXCEPT ![i] =
                                [pc |-> "timer", delay |-> delay,
                                 due |-> now + (delay \div 1000)]]
                 /\ UNCHANGED <<queryQueue, lastError, served>>
    ELSE ClearAndRecurse(i, error.message, TRUE)

TypeError == Err(0, "TypeError")

\* getFromCache resolves at sw.js:190
CacheChecked(i) ==
    /\ loops[i].pc = "getCache"
    /\ LET cached == getFromCache(cache, lastSettingsChange, now, loops[i].host).value IN
       /\ cache' = CacheAfterGet(cache, lastSettingsChange, now, loops[i].host)
       /\ IF currentTask = Null
          THEN Catch(i, TypeError) /\ UNCHANGED lastPush
          ELSE IF cached # Null /\ ~cached.isStale
          THEN /\ lastPush' = updateBadgeForRating(lastPush, currentTask.tabId,
                                                    cached.reviews)
               /\ loops' = [loops EXCEPT ![i] = [pc |-> "badge", path |-> "hit"]]
               /\ UNCHANGED <<schedVars, lastBroadcast, served>>
          ELSE /\ loops' = [loops EXCEPT ![i] =
                              [pc |-> "settings", host |-> currentTask.hostname]]
               /\ UNCHANGED <<schedVars, lastBroadcast, served, lastPush>>
    /\ UNCHANGED <<geminiApiKey, sources, lastSettingsChange, now, nextSeq>>
    /\ Observe

\* updateBadgeForRating resolves at sw.js:192 or sw.js:203
BadgeDone(i) ==
    /\ loops[i].pc = "badge"
    /\ IF loops[i].path = "hit"
       THEN ClearAndRecurse(i, lastError, FALSE)
       ELSE ClearAndRecurse(i, NoError, TRUE)
    /\ UNCHANGED <<storeVars, now, lastPush, nextSeq>>
    /\ Observe

\* chrome.storage.sync.get resolves in performGeminiQuery (sw.js:250-260)
SettingsRead(i) ==
    /\ loops[i].pc = "settings"
    /\ loops' = [loops EXCEPT ![i] =
                    IF ~geminiApiKey
                    THEN [pc |-> "readBack", saved |-> FALSE]
                    ELSE [pc |-> "fetch", host |-> loops[i].host,
                          sources |-> sources]]
    /\ UNCHANGED <<schedVars, storeVars, now, lastBroadcast, lastPush, histVars>>
    /\ Observe

\* fetch settles and the response is handled (sw.js:330-376)
FetchReturns(i, r) ==
    /\ loops[i].pc = "fetch"
    /\ LET hostname == loops[i].host
           migrated == migrateSources(loops[i].sources)
       IN IF Thrown(r) # Null
          THEN /\ Catch(i, Thrown(r))
               /\ UNCHANGED <<storeVars>>
          ELSE IF r.isSource /\ ~SourceExists(migrated, hostname)
          THEN /\ sources' = Append(migrated,
                                [domain |-> hostname, state |-> "auto", visits |-> 0])
               /\ lastSettingsChange' = now
               /\ loops' = [loops EXCEPT ![i] =
                              [pc |-> "save", host |-> hostname, reviews |-> r.reviews,
                               isSource |-> r.isSource, meta |-> r.meta]]
               /\ UNCHANGED <<schedVars, cache, geminiApiKey, lastBroadcast, served>>
          ELSE /\ cache' = saveToCache(cache, now, hostname, r.reviews, r.isSource, r.meta)
               /\ loops' = [loops EXCEPT ![i] = [pc |-> "readBack", saved |-> TRUE]]
               /\ UNCHANGED <<schedVars, geminiApiKey, sources, lastSettingsChange,
                              lastBroadcast, served>>
    /\ UNCHANGED <<now, lastPush, nextSeq>>
    /\ Observe

\* chrome.storage.sync.set of the auto-add resolves (sw.js:370-376)
AutoAdded(i) ==
    /\ loops[i].pc = "save"
    /\ cache' = saveToCache(cache, now, loops[i].host, loops[i].reviews,
                            loops[i].isSource, loops[i].meta)
    /\ loops' = [loops EXCEPT ![i] = [pc |-> "readBack", saved |-> TRUE]]
    /\ UNCHANGED <<schedVars, geminiApiKey, sources, lastSettingsChange, now,
                   lastBroadcast, lastPush, histVars>>
    /\ Observe

\* performGeminiQuery has returned and getFromCache resolves at sw.js:201
ReadBack(i) ==
    /\ loops[i].pc = "readBack"
    /\ IF currentTask = Null
       THEN Catch(i, TypeError) /\ UNCHANGED <<cache, lastPush>>
       ELSE LET freshData == getFromCache(cache, lastSettingsChange, now,
                                          currentTask.hostname).value
            IN /\ cache' = CacheAfterGet(cache, lastSettingsChange, now,
                                         currentTask.hostname)
               /\ IF freshData # Null
                  THEN /\ lastPush' = updateBadgeForRating(lastPush, currentTask.tabId,
                                                            freshData.reviews)
                       /\ loops' = [loops EXCEPT ![i] = [pc |-> "badge", path |-> "fresh"]]
                  ELSE /\ loops' = [loops EXCEPT ![i] = Idle]
                       /\ UNCHANGED lastPush
               /\ UNCHANGED <<schedVars, lastBroadcast, served>>
    /\ UNCHANGED <<geminiApiKey, sources, lastSettingsChange, now, nextSeq>>
    /\ Observe

\* the timer of setTimeout(processQueue, delay) fires (sw.js:225)
TimerFires(i) ==
    /\ loops[i].pc = "timer"
    /\ now' = Min(Max(now, loops[i].due), Horizon)
    /\ LET e == Enter(queryQueue, currentTask) IN
       /\ queryQueue' = e.queue
       /\ currentTask' = e.cur
       /\ loops' = [loops EXCEPT ![i] = e.loop]
       /\ lastBroadcast' = IF e.bcast THEN Payload(e.queue, e.cur, lastError)
                           ELSE lastBroadcast
       /\ served' = Served(e)
    /\ UNCHANGED <<lastError, storeVars, lastPush, nextSeq>>
    /\ Observe

\* saveApiKey of the options page (options.js:33-38)
saveApiKey(key) ==
    /\ geminiApiKey' = key
    /\ UNCHANGED <<schedVars, cache, sources, lastSettingsChange, now, loops,
                   lastBroadcast, lastPush, histVars>>
    /\ UNCHANGED statusVars

\* Calls of addToQueue from handleNavigation (sw.js:427) and from the
\* REFRESH message (sw.js:488); at most n Tasks are created in one run.
IsNew(h) == FindIndex(queryQueue, h) = 0 /\ ~IsProcessing(currentTask, h)

EnqueueOf(H, T, n) ==
    \E h \in H, f \in BOOLEAN, t \in T :
        /\ IsNew(h) => nextSeq <= n
        /\ addToQueue(h, f, t)

Enqueue == EnqueueOf(TwoHosts, TabIds, MaxEnqueues)

\* The answers the upstream may give now: in Spec no Task is answered 503
\* more than Max503 times in a row.
Is503(r) == r.ok /\ r.status = 503 /\ r.bodyJson
Upstream ==
    {r \in Responses :
        Is503(r) => (currentTask # Null /\ currentTask.retryAttempts < Max503)}

Resume(i) ==
    \/ CacheChecked(i)
    \/ BadgeDone(i)
    \/ SettingsRead(i)
    \/ AutoAdded(i)
    \/ ReadBack(i)
    \/ TimerFires(i)

LoopStep ==
    \E i \in 1..MaxLoops :
        \/ Resume(i)
        \/ \E r \in Upstream : FetchReturns(i, r)
Configure == \E k \in BOOLEAN : saveApiKey(k)

Next == Enqueue \/ LoopStep \/ Configure

Spec == Init /\ [][Next]_vars

\* Callbacks, timers and settled promises are eventually run by the event
\* loop.
FairSpec == Spec /\ WF_vars(LoopStep)

\* The same program with a configured installation, an empty cache, a
\* single tab and an upstream that may answer 503 any number of times.
RetryInit == Init /\ geminiApiKey /\ \A h \in Hosts : cache[h] = Null

RetryResponses ==
    {r \in Responses : Is503(r) \/ Thrown(r) = Null}

RetryStep ==
    \E i \in 1..MaxLoops :
        \/ Resume(i)
        \/ \E r \in RetryResponses : FetchReturns(i, r)

RetryEnqueue == EnqueueOf(TwoHosts, {1}, MaxEnqueues)

RetryNext == RetryEnqueue \/ RetryStep

RetrySpec == RetryInit /\ [][RetryNext]_vars

FairRetrySpec == RetrySpec /\ WF_vars(RetryStep)

\* The same program with three hosts, one more Task, a single tab and an
\* upstream that answers 503 at most Max503 times in a row.
QueueEnqueue == EnqueueOf(Hosts, {1}, MaxEnqueues + 1)

QueueStep ==
    \E i \in 1..MaxLoops :
        \/ Resume(i)
        \/ \E r \in RetryResponses \cap Upstream : FetchReturns(i, r)

QueueNext == QueueEnqueue \/ QueueStep

QueueSpec == RetryInit /\ [][QueueNext]_vars

\* ------------------------------------------------------------------------
\* The cache store on its own: entries left by earlier runs with ages next
\* to the two thresholds, a key that is not a cache key, and the calls of
\* saveToCache, getFromCache and pruneCache while the clock advances and
\* the settings change.
\* ------------------------------------------------------------------------
OldEntry(h, age) == Entry(h, StartTime - age, <<"old">>, FALSE, "m0")

\* the settings were never changed, or changed before any entry was written
OldSettingsChange == StartTime - CACHE_EXPIRE_MS - 1

CacheInitEntries(k) ==
    IF k = "a.com"
    THEN {OldEntry(k, CACHE_STALE_MS - 1), OldEntry(k, CACHE_EXPIRE_MS - 1)}
    ELSE IF k = "b.com" THEN {Null, OldEntry(k, CACHE_EXPIRE_MS - 1)}
    ELSE IF k = OtherKey THEN {OtherValue}
    ELSE {OldEntry(k, CACHE_EXPIRE_MS - 1)}

CacheInit ==
    /\ queryQueue = <<>>
    /\ currentTask = Null
    /\ lastError = NoError
    /\ cache \in {c \in [Keys -> UNION {CacheInitEntries(k) : k \in Keys}] :
                    \A k \in Keys : c[k] \in CacheInitEntries(k)}
    /\ geminiApiKey = TRUE
    /\ sources = <<>>
    /\ lastSettingsChange \in {0, OldSettingsChange}
    /\ now = StartTime
    /\ loops = [i \in 1..MaxLoops |-> Idle]
    /\ lastBroadcast = Null
    /\ lastPush = Null
    /\ nextSeq = 1
    /\ served = <<>>
    /\ NoStatus

PutReviews == {<<>>, <<"new">>}
PutMeta == {"m1", "m2"}

\* a call of saveToCache (sw.js:124-135)
CachePut(h, reviews, isSource, meta) ==
    /\ cache' = saveToCache(cache, now, h, reviews, isSource, meta)
    /\ UNCHANGED <<schedVars, geminiApiKey, sources, lastSettingsChange, now,
                   loops, lastBroadcast, lastPush, histVars>>
    /\ UNCHANGED statusVars

\* a call of getFromCache (sw.js:98-122)
CacheGet(h) ==
    /\ cache' = CacheAfterGet(cache, lastSettingsChange, now, h)
    /\ UNCHANGED <<schedVars, geminiApiKey, sources, lastSettingsChange, now,
                   loops, lastBroadcast, lastPush, histVars>>
    /\ UNCHANGED statusVars

\* chrome.runtime.onStartup runs pruneCache (sw.js:449)
onStartup ==
    /\ cache' = pruneCache(cache, now)
    /\ UNCHANGED <<schedVars, geminiApiKey, sources, lastSettingsChange, now,
                   loops, lastBroadcast, lastPush, histVars>>
    /\ UNCHANGED statusVars

\* a setting is changed on the options page (part_005:147)
ModelSelected ==
    /\ lastSettingsChange' = now
    /\ UNCHANGED <<schedVars, cache, geminiApiKey, sources, now, loops,
                   lastBroadcast, lastPush, histVars>>
    /\ UNCHANGED statusVars

\* a second passes on the clock read by Date.now()
Tick ==
    /\ now < StartTime + MaxTicks
    /\ now' = now + 1
    /\ UNCHANGED <<schedVars, storeVars, loops, lastBroadcast, lastPush, histVars>>
    /\ UNCHANGED statusVars

CacheNext ==
    \/ \E h \in TwoHosts, r \in PutReviews, s \in BOOLEAN, m \in PutMeta :
          CachePut(h, r, s, m)
    \/ \E h \in TwoHosts : CacheGet(h)
    \/ onStartup
    \/ ModelSelected
    \/ Tick

CacheSpec == CacheInit /\ [][CacheNext]_vars

\* ------------------------------------------------------------------------
\* The source registry on its own: every registry of up to three sources
\* (records, or a legacy list of strings) and the selection of the active
\* domains when performGeminiQuery builds its request.
\* ------------------------------------------------------------------------
SourceDomains == {"x.org", "www.x.org", "y.org"}
SourceStates == {"on", "auto", "off"}
SourceRecords ==
    {Source(d, st, v) : d \in SourceDomains, st \in SourceStates,
                        v \in 0..(MaxVisits - 1)}

Distinct(srcs) ==
    \A i, j \in 1..Len(srcs) : i # j => srcs[i].domain # srcs[j].domain

Registries ==
    {srcs \in UNION {[1..n -> SourceRecords] : n \in 0..Cardinality(SourceDomains)} :
        Distinct(srcs)}

LegacyDomains == {Legacy(d) : d \in SourceDomains}
LegacyLists ==
    {l \in UNION {[1..n -> LegacyDomains] : n \in 1..Cardinality(SourceDomains)} :
        \A i, j \in 1..Len(l) : i # j => l[i] # l[j]}

\* the registry of the selection example
Example == <<Source("a", "on", 5), Source("b", "auto", 100),
             Source("c", "auto", 1), Source("d", "off", 999)>>
ExampleRegistries ==
    {r \in [1..Len(Example) -> {Example[i] : i \in 1..Len(Example)}] : Distinct(r)}

\* hostnames navigated to
VisitHosts == SourceDomains \cup {"a.com"}

SourcesInit ==
    /\ queryQueue = <<>>
    /\ currentTask = Null
    /\ lastError = NoError
    /\ cache = [h \in Hosts |-> Null]
    /\ geminiApiKey = TRUE
    /\ sources \in Registries \cup LegacyLists \cup ExampleRegistries \cup {Absent}
    /\ lastSettingsChange = 0
    /\ now = StartTime
    /\ loops = [i \in 1..MaxLoops |-> Idle]
    /\ lastBroadcast = Null
    /\ lastPush = Null
    /\ nextSeq = 1
    /\ served = <<>>
    /\ NoStatus

\* performGeminiQuery reads the settings and selects the domains of its
\* request (sw.js:250-262) when maxProviders is stored as m
SelectDomains(m) ==
    /\ loops' = [loops EXCEPT ![1] =
                    [pc |-> "fetch", host |-> "a.com", sources |-> sources,
                     limitProviders |-> LimitProviders(m),
                     cleanSourceDomains |->
                        getActiveSources(sources, LimitProviders(m))]]
    /\ UNCHANGED <<schedVars, storeVars, now, lastBroadcast, lastPush, histVars>>
    /\ UNCHANGED statusVars

\* checkAndIncrementVisits (sw.js:383-407) for a navigation to h; visit
\* counts stop at MaxVisits
checkAndIncrementVisits(h) ==
    /\ LET k == MatchIndex(migrateSources(sources), h) IN
          k # 0 => migrateSources(sources)[k].visits < MaxVisits
    /\ sources' = VisitedSources(sources, h)
    /\ UNCHANGED <<schedVars, cache, geminiApiKey, lastSettingsChange, now, loops,
                   lastBroadcast, lastPush, histVars>>
    /\ UNCHANGED statusVars

SourcesNext ==
    \/ \E m \in 0..MaxProviders : SelectDomains(m)
    \/ \E h \in VisitHosts : checkAndIncrementVisits(h)

SourcesSpec == SourcesInit /\ [][SourcesNext]_vars

\* ------------------------------------------------------------------------
\* The scheduler together with the registry: lookups of x.org and
\* www.x.org that may report a source, navigations to them, and the user
\* adding sources on the options page while the scheduler works.
\* ------------------------------------------------------------------------
RegistryHosts == {"x.org", "www.x.org"}

RegistryStarts ==
    {<<>>, Absent, <<Source("x.org", "on", 0)>>, <<Source("www.x.org", "on", 0)>>,
     <<Legacy("www.x.org")>>}

RegistryInit ==
    /\ queryQueue = <<>>
    /\ currentTask = Null
    /\ lastError = NoError
    /\ cache = [h \in Hosts \cup SourceDomains |-> Null]
    /\ geminiApiKey = TRUE
    /\ sources \in RegistryStarts
    /\ lastSettingsChange = 0
    /\ now = StartTime
    /\ loops = [i \in 1..MaxLoops |-> Idle]
    /\ lastBroadcast = Null
    /\ lastPush = Null
    /\ nextSeq = 1
    /\ served = <<>>
    /\ NoStatus

\* addSource of the options page (part_005:179-203)
addSource(newDomain) ==
    /\ LET srcs == migrateSources(sources) IN
       /\ \A i \in 1..Len(srcs) : srcs[i].domain # newDomain
       /\ sources' = Append(srcs, Source(newDomain, "auto", 0))
    /\ lastSettingsChange' = now
    /\ UNCHANGED <<schedVars, cache, geminiApiKey, now, loops, lastBroadcast,
                   lastPush, histVars>>
    /\ UNCHANGED statusVars

\* updateSourceState of the options page (part_005:205-222)
updateSourceState(domain, newState) ==
    /\ LET srcs == migrateSources(sources) IN
       /\ \E k \in 1..Len(srcs) : srcs[k].domain = domain
       /\ sources' = [k \in 1..Len(srcs) |->
                        IF srcs[k].domain = domain
                        THEN [srcs[k] EXCEPT !.state = newState]
                        ELSE srcs[k]]
    /\ lastSettingsChange' = now
    /\ UNCHANGED <<schedVars, cache, geminiApiKey, now, loops, lastBroadcast,
                   lastPush, histVars>>
    /\ UNCHANGED statusVars

RegistryEnqueue == EnqueueOf(RegistryHosts, {1}, MaxEnqueues)

RegistryNext ==
    \/ RegistryEnqueue
    \/ QueueStep
    \/ \E h \in RegistryHosts : checkAndIncrementVisits(h)
    \/ \E d \in {"y.org"} : addSource(d)
    \/ \E d \in {"y.org"}, st \in {"off"} : updateSourceState(d, st)

RegistrySpec == RegistryInit /\ [][RegistryNext]_vars

\* ------------------------------------------------------------------------
\* Navigation: tabs finish loading pages or are activated while the
\* scheduler works (sw.js:409-446).
\* ------------------------------------------------------------------------
\* A tab's url: its scheme and the hostname new URL(url).hostname gives;
\* NoUrl is the empty or missing url.
Url(scheme, hostname) == [scheme |-> scheme, hostname |-> hostname]
NoUrl == [empty |-> TRUE]
NavHosts == {"a.com", "x.org"}
Schemes == {"http", "https", "chrome"}
Urls == {Url(sc, h) : sc \in Schemes, h \in NavHosts} \cup {NoUrl}

\* "!url || !url.startsWith('http')" is false (sw.js:410)
StartsWithHttp(scheme) == scheme \in {"http", "https"}
Navigable(url) == url # NoUrl /\ StartsWithHttp(url.scheme)

Enqueues_missOnly(cached) == cached = Null

\* the handler goes on to addToQueue (sw.js:422-427)
Enqueues(cached) == ~(cached # Null /\ ~cached.isStale)

BadgeCall(tabId, reviews) ==
    [call |-> "updateBadgeForRating", tabId |-> tabId, reviews |-> reviews]
QueueCall(hostname, forceRefresh, tabId) ==
    [call |-> "addToQueue", hostname |-> hostname, forceRefresh |-> forceRefresh,
     tabId |-> tabId]

\* The calls handleNavigation makes after the cache read, in order
\* (sw.js:418-427)
NavCalls(c, lsc, t, tabId, url) ==
    IF ~Navigable(url) THEN <<>>
    ELSE LET cached == getFromCache(c, lsc, t, url.hostname).value
         IN (IF cached # Null THEN <<BadgeCall(tabId, cached.reviews)>> ELSE <<>>)
            \o (IF Enqueues(cached)
                THEN <<QueueCall(url.hostname, FALSE, tabId)>> ELSE <<>>)

HasCall(calls, name) == \E k \in 1..Len(calls) : calls[k].call = name

\* handleNavigation (sw.js:409-432)
handleNavigation(tabId, url) ==
    /\ Navigable(url)
    /\ LET hostname == url.hostname
           calls == NavCalls(cache, lastSettingsChange, now, tabId, url)
           k == MatchIndex(migrateSources(sources), hostname)
       IN /\ k # 0 => migrateSources(sources)[k].visits < MaxVisits
          /\ sources' = VisitedSources(sources, hostname)
          /\ cache' = CacheAfterGet(cache, lastSettingsChange, now, hostname)
          /\ lastPush' = IF HasCall(calls, "updateBadgeForRating")
                         THEN updateBadgeForRating(lastPush, tabId, calls[1].reviews)
                         ELSE lastPush
          /\ IF HasCall(calls, "addToQueue")
             THEN /\ IsNew(hostname) => nextSeq <= MaxEnqueues
                  /\ Enqueued(hostname, FALSE, tabId)
             ELSE UNCHANGED <<queryQueue, currentTask, loops, lastBroadcast,
                              histVars>>
    /\ UNCHANGED <<lastError, geminiApiKey, lastSettingsChange, now>>
    /\ Observe

NavEntries(h) ==
    IF h = "a.com"
    THEN {Null} \cup {Entry(h, StartTime - a, <<"old">>, FALSE, "m0") :
                        a \in {1, CACHE_STALE_MS + 1, CACHE_EXPIRE_MS + 1}}
    ELSE {Null}

NavInit ==
    /\ queryQueue = <<>>
    /\ currentTask = Null
    /\ lastError = NoError
    /\ cache \in {c \in [Hosts \cup SourceDomains ->
                            UNION {NavEntries(h) : h \in Hosts \cup SourceDomains}] :
                    \A h \in Hosts \cup SourceDomains : c[h] \in NavEntries(h)}
    /\ geminiApiKey = TRUE
    /\ sources \in {<<>>, <<Source("x.org", "on", 0)>>}
    /\ lastSettingsChange = 0
    /\ now = StartTime
    /\ loops = [i \in 1..MaxLoops |-> Idle]
    /\ lastBroadcast = Null
    /\ lastPush = Null
    /\ nextSeq = 1
    /\ served = <<>>
    /\ NoStatus

Navigate == \E tabId \in TabIds, url \in Urls : handleNavigation(tabId, url)

NavNext == Navigate \/ QueueStep

NavSpec == NavInit /\ [][NavNext]_vars

\* ------------------------------------------------------------------------
\* GET_STATUS (sw.js:468-485): the popup asks for the status while the
\* scheduler works; the history of the scheduler's states is kept.
\* ------------------------------------------------------------------------
NoHost == ""

\* the response sendResponse serialises (sw.js:482): qStatus.queue is the
\* array queryQueue itself, read when the response is sent
StatusResponse(q, task, err, result) ==
    [queue |-> q, currentTask |-> task, lastError |-> err, currentResult |-> result]

\* the message arrives; without a hostname the response is sent at once,
\* with one the handler waits for getFromCache (sw.js:469-480)
GET_STATUS(hostname) ==
    /\ pending = Null
    /\ IF hostname = NoHost
       THEN /\ delivered' = StatusResponse(queryQueue, currentTask, lastError, Null)
            /\ pending' = Null
       ELSE /\ pending' = [task |-> currentTask, lastError |-> lastError,
                           hostname |-> hostname]
            /\ delivered' = delivered
    /\ UNCHANGED <<schedVars, storeVars, now, loops, lastBroadcast, lastPush,
                   histVars, seen>>

\* getFromCache resolves and sendResponse is called (sw.js:479-482)
StatusSent ==
    /\ pending # Null
    /\ delivered' =
          StatusResponse(queryQueue, pending.task, pending.lastError,
              getFromCache(cache, lastSettingsChange, now, pending.hostname).value)
    /\ cache' = CacheAfterGet(cache, lastSettingsChange, now, pending.hostname)
    /\ pending' = Null
    /\ UNCHANGED <<schedVars, geminiApiKey, sources, lastSettingsChange, now, loops,
                   lastBroadcast, lastPush, histVars, seen>>

StatusInit ==
    /\ queryQueue = <<>>
    /\ currentTask = Null
    /\ lastError = NoError
    /\ cache = [h \in Hosts |-> Null]
    /\ geminiApiKey = TRUE
    /\ sources = <<>>
    /\ lastSettingsChange = 0
    /\ now = StartTime
    /\ loops = [i \in 1..MaxLoops |-> Idle]
    /\ lastBroadcast = Null
    /\ lastPush = Null
    /\ nextSeq = 1
    /\ served = <<>>
    /\ pending = Null
    /\ delivered = Null
    /\ seen = {Payload(<<>>, Null, NoError)}

StatusEnqueue == EnqueueOf(TwoHosts, {1}, MaxEnqueues)

StatusNext ==
    \/ StatusEnqueue
    \/ QueueStep
    \/ \E hostname \in TwoHosts \cup {NoHost} : GET_STATUS(hostname)
    \/ StatusSent

StatusSpec == StatusInit /\ [][StatusNext]_vars

\* ------------------------------------------------------------------------
\* The earlier scheduler (popup.js:357-417, part_004:232-263): processQueue
\* returns at once when the slot is taken and clears the slot in a finally
\* block.  The preferred model never changes here, so its getFromCache
\* (popup.js:293-320) decides by age alone.
\* ------------------------------------------------------------------------
EarlyGet(c, t, h) == getFromCache(c, 0, t, h).value
EarlyAfterGet(c, t, h) == CacheAfterGet(c, 0, t, h)

\* The synchronous prefix of processQueue (popup.js:383-390); the
\* invocation remembers the Task it shifted
EarlyEnter(q, cur) ==
    IF cur # Null \/ Len(q) = 0
    THEN [queue |-> q, cur |-> cur, loop |-> Idle, bcast |-> FALSE, shifted |-> FALSE]
    ELSE LET c == Head(q)
         IN [queue |-> Tail(q), cur |-> c, bcast |-> TRUE, shifted |-> TRUE,
             loop |-> IF ~c.forceRefresh
                      THEN [pc |-> "getCache", host |-> c.hostname, task |-> c]
                      ELSE [pc |-> "lookup", host |-> c.hostname, task |-> c]]

EarlyServed(sv, e) == IF e.shifted THEN Append(sv, e.cur.seq) ELSE sv

\* addToQueue (popup.js:357-381)
EarlyAddToQueue(hostname, forceRefresh, tabId) ==
    /\ LET existingIndex == FindIndex(queryQueue, hostname) IN
       IF existingIndex # 0
       THEN /\ queryQueue' =
                   [queryQueue EXCEPT ![existingIndex] =
                       [@ EXCEPT !.forceRefresh = MergeForce(@, forceRefresh),
                                 !.tabId = MergeTab(@, tabId)]]
            /\ UNCHANGED <<currentTask, loops, lastBroadcast, histVars>>
       ELSE IF IsProcessing(currentTask, hostname)
       THEN /\ currentTask' = [currentTask EXCEPT !.tabId = MergeTab(@, tabId)]
            /\ UNCHANGED <<queryQueue, loops, lastBroadcast, histVars>>
       ELSE LET pushed == Push(queryQueue,
                               NewTask(hostname, forceRefresh, tabId, nextSeq))
                e == EarlyEnter(pushed, currentTask)
            IN /\ e.shifted => FreeSlots # {}
               /\ queryQueue' = e.queue
               /\ currentTask' = e.cur
               /\ loops' = IF e.shifted THEN [loops EXCEPT ![FreeSlot] = e.loop]
                           ELSE loops
               /\ lastBroadcast' = Payload(e.queue, e.cur, lastError)
               /\ served' = EarlyServed(served, e)
               /\ nextSeq' = nextSeq + 1
    /\ UNCHANGED <<lastError, storeVars, now, lastPush>>
    /\ Observe

\* the finally block (popup.js:412-416); err is lastError at its start
EarlyFinally(i, err) ==
    LET e == EarlyEnter(queryQueue, Null) IN
    /\ queryQueue' = e.queue
    /\ currentTask' = e.cur
    /\ lastError' = err
    /\ loops' = [loops EXCEPT ![i] = e.loop]
    /\ lastBroadcast' = Payload(e.queue, e.cur, err)
    /\ served' = EarlyServed(served, e)

\* getFromCache resolves at popup.js:392
EarlyCacheChecked(i) ==
    /\ loops[i].pc = "getCache"
    /\ LET cached == EarlyGet(cache, now, loops[i].host) IN
       /\ cache' = EarlyAfterGet(cache, now, loops[i].host)
       /\ IF currentTask = Null
          THEN \* currentTask.tabId or currentTask.hostname throws
               EarlyFinally(i, "TypeError") /\ UNCHANGED lastPush
          ELSE IF cached # Null /\ ~cached.isStale
          THEN /\ lastPush' = updateBadgeForRating(lastPush, currentTask.tabId,
                                                    cached.reviews)
               /\ loops' = [loops EXCEPT ![i] =
                              [pc |-> "badge", path |-> "hit", task |-> loops[i].task]]
               /\ UNCHANGED <<schedVars, lastBroadcast, served>>
          ELSE /\ loops' = [loops EXCEPT ![i] =
                              [pc |-> "lookup", host |-> currentTask.hostname,
                               task |-> loops[i].task]]
               /\ UNCHANGED <<schedVars, lastBroadcast, served, lastPush>>
    /\ UNCHANGED <<geminiApiKey, sources, lastSettingsChange, now, nextSeq>>
    /\ Observe

\* the badge of a cache hit is set: "currentTask = null; processQueue();
\* return;" and then the finally block (popup.js:393-396, 412-416)
EarlySkip(i) ==
    /\ loops[i].pc = "badge"
    /\ loops[i].path = "hit"
    /\ LET e1 == EarlyEnter(queryQueue, Null)
           e2 == EarlyEnter(e1.queue, Null)
           free == FreeSlots \ {i}
           j == CHOOSE k \in free : \A l \in free : k <= l
       IN /\ e1.shifted => free # {}
          /\ queryQueue' = e2.queue
          /\ currentTask' = e2.cur
          /\ loops' = IF e1.shifted
                      THEN [loops EXCEPT ![j] = e1.loop, ![i] = e2.loop]
                      ELSE [loops EXCEPT ![i] = e2.loop]
          /\ lastBroadcast' = Payload(e2.queue, e2.cur, lastError)
          /\ served' = EarlyServed(EarlyServed(served, e1), e2)
    /\ UNCHANGED <<lastError, storeVars, now, lastPush, nextSeq>>
    /\ Observe

EarlyOutcomes == {"saved", "none", "thrown"}

\* performGeminiQuery(host) settles (popup.js:400): it has stored an entry
\* for host, returned without one, or thrown; then popup.js:402
EarlyLookupReturns(i, outcome) ==
    /\ loops[i].pc = "lookup"
    /\ cache' = IF outcome = "saved"
                THEN saveToCache(cache, now, loops[i].host, <<"new">>, FALSE, "m1")
                ELSE cache
    /\ IF outcome = "thrown"
       THEN EarlyFinally(i, "Failed to fetch")
       ELSE IF currentTask = Null
       THEN EarlyFinally(i, "TypeError")
       ELSE /\ loops' = [loops EXCEPT ![i] =
                           [pc |-> "readBack", host |-> currentTask.hostname,
                            task |-> loops[i].task]]
            /\ UNCHANGED <<schedVars, lastBroadcast, served>>
    /\ UNCHANGED <<geminiApiKey, sources, lastSettingsChange, now, lastPush, nextSeq>>
    /\ Observe

\* getFromCache resolves at popup.js:402
EarlyReadBack(i) ==
    /\ loops[i].pc = "readBack"
    /\ LET freshData == EarlyGet(cache, now, loops[i].host) IN
       /\ cache' = EarlyAfterGet(cache, now, loops[i].host)
       /\ IF freshData = Null
          THEN EarlyFinally(i, lastError) /\ UNCHANGED lastPush
          ELSE IF currentTask = Null
          THEN EarlyFinally(i, "TypeError") /\ UNCHANGED lastPush
          ELSE /\ lastPush' = updateBadgeForRating(lastPush, currentTask.tabId,
                                                    freshData.reviews)
               /\ loops' = [loops EXCEPT ![i] =
                              [pc |-> "badge", path |-> "done", task |-> loops[i].task]]
               /\ UNCHANGED <<schedVars, lastBroadcast, served>>
    /\ UNCHANGED <<geminiApiKey, sources, lastSettingsChange, now, nextSeq>>
    /\ Observe

\* the badge of a finished lookup is set (popup.js:404-406, 412-416)
EarlyDone(i) ==
    /\ loops[i].pc = "badge"
    /\ loops[i].path = "done"
    /\ EarlyFinally(i, NoError)
    /\ UNCHANGED <<storeVars, now, lastPush, nextSeq>>
    /\ Observe

EarlyInit ==
    /\ queryQueue = <<>>
    /\ currentTask = Null
    /\ lastError = NoError
    /\ cache \in {[h \in Hosts |-> IF h = "a.com" THEN e ELSE Null] :
                    e \in {Null, Entry("a.com", StartTime - 1, <<"old">>, FALSE, "m0")}}
    /\ geminiApiKey = TRUE
    /\ sources = <<>>
    /\ lastSettingsChange = 0
    /\ now = StartTime
    /\ loops = [i \in 1..MaxLoops |-> Idle]
    /\ lastBroadcast = Null
    /\ lastPush = Null
    /\ nextSeq = 1
    /\ served = <<>>
    /\ NoStatus

EarlyEnqueue ==
    \E h \in TwoHosts, f \in BOOLEAN, t \in TabIds :
        /\ IsNew(h) => nextSeq <= MaxEnqueues
        /\ EarlyAddToQueue(h, f, t)

EarlyStep ==
    \E i \in 1..MaxLoops :
        \/ EarlyCacheChecked(i)
        \/ EarlySkip(i)
        \/ \E outcome \in EarlyOutcomes : EarlyLookupReturns(i, outcome)
        \/ EarlyReadBack(i)
        \/ EarlyDone(i)

EarlyNext == EarlyEnqueue \/ EarlyStep

EarlySpec == EarlyInit /\ [][EarlyNext]_vars

TypeOK ==
    /\ Len(queryQueue) <= MaxEnqueues + 1
    /\ now <= Horizon

\* ------------------------------------------------------------------------
\* Properties
\* ------------------------------------------------------------------------
QueueIndexes == 1..Len(queryQueue)
TimerPending == \E i \in 1..MaxLoops : loops[i].pc = "timer"
InQueue(q, s) == \E k \in 1..Len(q) : q[k].seq = s

TasksFor(h) ==
    Cardinality({k \in QueueIndexes : queryQueue[k].hostname = h})
    + (IF currentTask # Null /\ currentTask.hostname = h THEN 1 ELSE 0)

\* A call of addToQueue has merged into the Task in the slot: merges do not
\* broadcast, so the last payload still shows the Task with its old tab.
MergedIntoActive ==
    /\ currentTask # Null
    /\ lastBroadcast # Null
    /\ lastBroadcast.currentTask # Null
    /\ lastBroadcast.currentTask.seq = currentTask.seq
    /\ lastBroadcast.currentTask.tabId # currentTask.tabId

\* A call of addToQueue has merged into a queued Task.
MergedIntoQueued ==
    /\ lastBroadcast # Null
    /\ \E k \in QueueIndexes : \E m \in 1..Len(lastBroadcast.queue) :
          /\ lastBroadcast.queue[m].seq = queryQueue[k].seq
          /\ lastBroadcast.queue[m] # queryQueue[k]

\* C1: single-flight: for every hostname at most one Task exists in the
\* union of queryQueue and the currentTask slot.
C1_SingleFlight == \A h \in Hosts : TasksFor(h) <= 1

C1_Witness ==
    /\ MergedIntoActive
    /\ MergedIntoQueued

\* C2: merge on duplicate: a call of addToQueue for a hostname that has a
\* Task in the queue or in the slot creates no Task and leaves that Task
\* with forceRefresh = (old forceRefresh OR new forceRefresh), in the queued
\* case and in the active case.
C2_MergeOnDuplicate ==
    [][\A h \in Hosts, f \in BOOLEAN, t \in TabIds :
        (addToQueue(h, f, t) /\ ~IsNew(h)) =>
            /\ nextSeq' = nextSeq
            /\ Len(queryQueue') = Len(queryQueue)
            /\ LET k == FindIndex(queryQueue, h) IN
               IF k # 0
               THEN queryQueue'[k].forceRefresh = (queryQueue[k].forceRefresh \/ f)
               ELSE /\ currentTask' # Null
                    /\ currentTask'.forceRefresh = (currentTask.forceRefresh \/ f)
      ]_vars

\* C3: FIFO service order: Tasks enter the slot in the order of their first
\* enqueue, a merge does not move a queued Task, and a Task waiting for its
\* retry keeps the slot.
Ordered ==
    /\ \A k, m \in QueueIndexes : k < m => queryQueue[k].seq < queryQueue[m].seq
    /\ currentTask # Null => \A k \in QueueIndexes : currentTask.seq < queryQueue[k].seq
    /\ \A k, m \in 1..Len(served) : k < m => served[k] < served[m]
    /\ \A k \in QueueIndexes : \A m \in 1..Len(served) : served[m] < queryQueue[k].seq

FifoStep ==
    /\ (currentTask' # Null /\ (currentTask = Null \/ currentTask'.seq # currentTask.seq)) =>
          /\ currentTask'.seq = IF Len(queryQueue) > 0 THEN Head(queryQueue).seq ELSE nextSeq
          /\ currentTask # Null => ~InQueue(queryQueue', currentTask.seq)
    /\ (currentTask # Null /\ TimerPending) =>
          /\ currentTask' # Null
          /\ currentTask'.seq = currentTask.seq
    /\ \A h \in Hosts :
          (FindIndex(queryQueue, h) # 0 /\ FindIndex(queryQueue', h) # 0
           /\ queryQueue'[FindIndex(queryQueue', h)].seq
                = queryQueue[FindIndex(queryQueue, h)].seq
           /\ Len(queryQueue') = Len(queryQueue))
          => FindIndex(queryQueue', h) = FindIndex(queryQueue, h)

C3_Fifo == []Ordered /\ [][FifoStep]_vars

C3_Witness ==
    /\ TimerPending
    /\ Len(queryQueue) = 2
    /\ MergedIntoQueued
    /\ served = <<1>>

\* C4: handling a 503 leaves the Task in the slot with the same hostname,
\* forceRefresh and tabId, leaves the queue and lastError unchanged,
\* increments retryAttempts by one, sets nextRetryTime to now + delay and
\* schedules exactly one re-entry of the loop.
Handles503(i, r) ==
    FetchReturns(i, r) /\ Thrown(r) # Null /\ Thrown(r).status = 503 /\ currentTask # Null

C4_RetryFrame ==
    [][\A i \in 1..MaxLoops, r \in Responses :
        Handles503(i, r) =>
            /\ currentTask' =
                 [currentTask EXCEPT
                    !.retryAttempts = currentTask.retryAttempts + 1,
                    !.nextRetryTime = now + (BackoffDelay(currentTask.retryAttempts) \div 1000)]
            /\ queryQueue' = queryQueue
            /\ lastError' = lastError
            /\ loops'[i].pc = "timer"
            /\ loops'[i].due = currentTask'.nextRetryTime
            /\ \A j \in 1..MaxLoops : j # i => loops'[j] = loops[j]
            /\ UNCHANGED <<storeVars, now, lastPush>>
      ]_vars

C4_Witness ==
    /\ TimerPending
    /\ currentTask # Null
    /\ currentTask.retryAttempts = 2
    /\ currentTask.nextRetryTime = now + 5
    /\ Len(queryQueue) = 1

\* C5: backoff schedule: the delay of the k-th consecutive 503 of a Task is
\* 0, 5000, 10000, 20000, ... milliseconds, doubling from 5000 and never
\* above 300000; the sequence is non-decreasing.
ScheduleTable == <<0, 5000, 10000, 20000, 40000, 80000, 160000, 300000>>
Schedule(k) == IF k + 1 <= Len(ScheduleTable) THEN ScheduleTable[k + 1] ELSE 300000

C5_Backoff ==
    \A i \in 1..MaxLoops :
        (loops[i].pc = "timer" /\ currentTask # Null) =>
            LET k == currentTask.retryAttempts - 1 IN
            /\ loops[i].delay = Schedule(k)
            /\ loops[i].delay <= 300000
            /\ k > 0 => Schedule(k - 1) <= loops[i].delay
            /\ (k > 0 /\ loops[i].delay < 300000) => loops[i].delay = 2 * Schedule(k - 1) \/ k = 1

C5_Witness ==
    \E i \in 1..MaxLoops :
        /\ loops[i].pc = "timer"
        /\ currentTask # Null
        /\ currentTask.retryAttempts = 18
        /\ loops[i].delay = 300000

\* C6: terminal failure: an error whose status is not 503 sets lastError to
\* its message, removes the Task from the slot without queueing it again,
\* schedules no retry and makes the head of the queue the active Task.
FailsTerminally(i, r) ==
    FetchReturns(i, r) /\ Thrown(r) # Null /\ Thrown(r).status # 503 /\ currentTask # Null

C6_TerminalFailure ==
    [][\A i \in 1..MaxLoops, r \in Responses :
        FailsTerminally(i, r) =>
            /\ lastError' = Thrown(r).message
            /\ ~InQueue(queryQueue', currentTask.seq)
            /\ currentTask' = Null \/ currentTask'.seq # currentTask.seq
            /\ \A j \in 1..MaxLoops : loops'[j].pc # "timer"
            /\ IF Len(queryQueue) > 0
               THEN currentTask' = Head(queryQueue) /\ queryQueue' = Tail(queryQueue)
               ELSE currentTask' = Null /\ queryQueue' = <<>>
      ]_vars

C6_Witness ==
    /\ lastError = "API Error: 500"
    /\ currentTask # Null
    /\ served = <<1, 2>>
    /\ lastBroadcast = Payload(queryQueue, currentTask, lastError)

\* C7: 503 failures of one hostname do not block other work for ever: a
\* Task queued behind the active Task eventually enters the slot, even if
\* every lookup of the active Task is answered 503.
C7_NoStarvation ==
    \A s \in 1..(MaxEnqueues + 1) :
        (currentTask # Null /\ InQueue(queryQueue, s))
            ~> (currentTask # Null /\ currentTask.seq = s)

\* C8: missing configuration is not a failure: when performGeminiQuery
\* returned early without a cache write and the cache has no entry for the
\* active Task, the Task still completes: lastError is not set and the Task
\* leaves the slot, at once or by a step of the invocation still at work.
ReturnsEarly(i) ==
    /\ ReadBack(i)
    /\ ~loops[i].saved
    /\ currentTask # Null
    /\ cache[currentTask.hostname] = Null

C8_MissingConfigCompletes ==
    [][\A i \in 1..MaxLoops :
        ReturnsEarly(i) =>
            /\ lastError' = lastError
            /\ \/ loops'[i] # Idle
               \/ currentTask' = Null
               \/ currentTask'.seq # currentTask.seq
      ]_vars

\* C9: drain to idle: with a credential configured, finitely many Tasks
\* and every run of 503 answers finite, the scheduler eventually stays
\* idle: currentTask is null and the queue is empty.
SchedulerIdle == currentTask = Null /\ Len(queryQueue) = 0

C9_DrainToIdle == []geminiApiKey => <>[]SchedulerIdle

C9_Witness ==
    /\ geminiApiKey
    /\ SchedulerIdle
    /\ \A i \in 1..MaxLoops : loops[i] = Idle
    /\ served = <<1, 2>>
    /\ lastError # NoError
    /\ now > StartTime

\* C10: cache-hit skip: when the active Task has forceRefresh = false and
\* the cache holds a fresh entry for its hostname at the check, the cached
\* reviews are pushed to the Task's tab, no lookup is started, the cache is
\* unchanged and the Task then leaves the slot.
FreshAt(h) ==
    /\ cache[h] # Null
    /\ now - cache[h].timestamp <= CACHE_STALE_MS
    /\ cache[h].timestamp >= lastSettingsChange

ChecksFresh(i) ==
    /\ CacheChecked(i)
    /\ currentTask # Null
    /\ ~currentTask.forceRefresh
    /\ FreshAt(currentTask.hostname)

SkipStep ==
    \A i \in 1..MaxLoops :
        /\ ChecksFresh(i) =>
              /\ loops'[i] = [pc |-> "badge", path |-> "hit"]
              /\ lastPush' = [tabId |-> currentTask.tabId,
                              reviews |-> cache[currentTask.hostname].reviews]
              /\ cache' = cache
              /\ currentTask' = currentTask
              /\ \A j \in 1..MaxLoops : loops'[j].pc \notin {"settings", "fetch"}
        /\ (BadgeDone(i) /\ loops[i].path = "hit" /\ currentTask # Null) =>
              /\ cache' = cache
              /\ currentTask' = Null \/ currentTask'.seq # currentTask.seq
              /\ ~InQueue(queryQueue', currentTask.seq)
              /\ \A j \in 1..MaxLoops :
                    loops'[j].pc \in {"settings", "fetch"} =>
                        loops'[j].host # currentTask.hostname

C10_CacheHitSkip == [][SkipStep]_vars

C10_Witness ==
    /\ SchedulerIdle
    /\ \A i \in 1..MaxLoops : loops[i] = Idle
    /\ lastPush # Null
    /\ lastPush.reviews = <<"new">>
    /\ lastBroadcast # Null
    /\ lastBroadcast.currentTask # Null
    /\ lastBroadcast.currentTask.seq = 2

\* C11: success path: when the lookup for the active hostname H succeeds
\* and the cache had no entry for H, getFromCache(H) then returns the entry
\* just written; the read-back pushes its reviews; and when the push has
\* resolved lastError is null, H has no Task in the queue or in the slot,
\* getFromCache(H) still returns the entry, and with an empty queue the
\* scheduler is idle.
WritesEntry(i) ==
    /\ loops[i].pc \in {"fetch", "save"}
    /\ loops'[i].pc = "readBack"
    /\ loops'[i].saved
    /\ cache[loops[i].host] = Null

GetAfter(h) == getFromCache(cache', lastSettingsChange', now', h).value

SuccessStep ==
    \A i \in 1..MaxLoops :
        /\ WritesEntry(i) =>
              /\ GetAfter(loops[i].host) # Null
              /\ GetAfter(loops[i].host).timestamp = now
              /\ GetAfter(loops[i].host).reviews = <<"new">>
              /\ GetAfter(loops[i].host).groundingMetadata = "m1"
              /\ ~GetAfter(loops[i].host).isStale
        /\ (ReadBack(i) /\ loops[i].saved /\ currentTask # Null) =>
              /\ loops'[i] = [pc |-> "badge", path |-> "fresh"]
              /\ lastPush' = [tabId |-> currentTask.tabId,
                              reviews |-> cache[currentTask.hostname].reviews]
        /\ (BadgeDone(i) /\ loops[i].path = "fresh" /\ currentTask # Null) =>
              /\ lastError' = NoError
              /\ FindIndex(queryQueue', currentTask.hostname) = 0
              /\ ~IsProcessing(currentTask', currentTask.hostname)
              /\ GetAfter(currentTask.hostname) # Null
              /\ GetAfter(currentTask.hostname).reviews = lastPush.reviews
              /\ Len(queryQueue) = 0 => (currentTask' = Null /\ queryQueue' = <<>>)

C11_SuccessPath == [][SuccessStep]_vars

C11_Witness ==
    /\ SchedulerIdle
    /\ \A i \in 1..MaxLoops : loops[i] = Idle
    /\ served = <<1, 2>>
    /\ cache["a.com"] = Null
    /\ cache["b.com"] # Null
    /\ cache["b.com"].timestamp = now
    /\ lastPush = [tabId |-> 2, reviews |-> <<"new">>]
    /\ lastError = NoError
    /\ lastBroadcast = Payload(<<>>, Null, NoError)

\* C12: the push updateBadgeForRating happens exactly once for each Task
\* that completes by cache-hit skip or by successful lookup, with the
\* tabId the Task holds at the push (the last one merged), and not at all
\* in a step that handles a 503 or a terminal failure.
EntersBadge(i) == loops[i].pc # "badge" /\ loops'[i].pc = "badge"

LeavesSlot ==
    /\ currentTask # Null
    /\ currentTask' = Null \/ currentTask'.seq # currentTask.seq

PushStep ==
    /\ \A i \in 1..MaxLoops :
          EntersBadge(i) =>
              /\ currentTask # Null
              /\ currentTask' = currentTask
              /\ lastPush' = [tabId |-> currentTask.tabId,
                              reviews |-> cache[currentTask.hostname].reviews]
              /\ \A j \in 1..MaxLoops : loops[j].pc # "badge"
              /\ \A j \in 1..MaxLoops : j # i => loops'[j] = loops[j]
    /\ (~\E i \in 1..MaxLoops : EntersBadge(i)) => lastPush' = lastPush
    /\ \A i \in 1..MaxLoops :
          (loops[i].pc = "badge" /\ loops'[i] # loops[i]) =>
              /\ BadgeDone(i)
              /\ LeavesSlot
    /\ LeavesSlot =>
          \/ \E i \in 1..MaxLoops : BadgeDone(i)
          \/ /\ \E i \in 1..MaxLoops, r \in Responses : FailsTerminally(i, r)
             /\ lastPush' = lastPush
    /\ \A i \in 1..MaxLoops, r \in Responses :
          (Handles503(i, r) \/ FailsTerminally(i, r)) =>
              /\ lastPush' = lastPush
              /\ \A j \in 1..MaxLoops : loops'[j].pc # "badge"

C13_EnqueueBroadcasts ==
    [][\A h \in Hosts, f \in BOOLEAN, t \in TabIds :
        addToQueue(h, f, t) =>
            lastBroadcast' = Payload(queryQueue', currentTask', lastError')
      ]_vars

\* C14: observers are never left with an out-of-date status: whenever no
\* processQueue invocation or timer is pending, the last STATUS_UPDATE
\* payload equals (queryQueue, currentTask, lastError); nothing has been
\* broadcast only while the scheduler is still in its initial state.
Quiescent == \A i \in 1..MaxLoops : loops[i] = Idle

C14_StatusCurrent ==
    Quiescent =>
        IF lastBroadcast = Null
        THEN SchedulerIdle /\ lastError = NoError
        ELSE lastBroadcast = Payload(queryQueue, currentTask, lastError)

\* ------------------------------------------------------------------------
\* Properties of the cache store (CacheSpec)
\* ------------------------------------------------------------------------
Get(h) == getFromCache(cache, lastSettingsChange, now, h)
Age(h) == now - cache[h].timestamp
Stored(h) == cache[h] # Null

\* C15: cache round trip: saveToCache(h, reviews, isSource, meta) followed
\* at once by getFromCache(h) returns an entry with the same reviews,
\* isSource and groundingMetadata and isStale = false, whatever entry was
\* stored for h before, and the read removes nothing.
AfterPut(h, r, s, m) == saveToCache(cache, now, h, r, s, m)

C15_RoundTrip ==
    /\ \A h \in TwoHosts, r \in PutReviews, s \in BOOLEAN, m \in PutMeta :
          LET g == getFromCache(AfterPut(h, r, s, m), lastSettingsChange, now, h)
          IN /\ g.value # Null
             /\ g.value.reviews = r
             /\ g.value.isSource = s
             /\ g.value.groundingMetadata = m
             /\ ~g.value.isStale
             /\ ~g.remove
    /\ \A h \in TwoHosts :
          (Stored(h) /\ cache[h].timestamp = now) =>
              /\ Get(h).value # Null
              /\ Get(h).value.reviews = cache[h].reviews
              /\ ~Get(h).value.isStale

C15_Witness ==
    /\ now = StartTime
    /\ lastSettingsChange = now
    /\ cache["a.com"] = Entry("a.com", now, <<>>, TRUE, "m2")

AfterGet(h) == CacheAfterGet(cache, lastSettingsChange, now, h)

C17_Expiry ==
    \A h \in TwoHosts :
        /\ (Stored(h) /\ Age(h) > CACHE_EXPIRE_MS) =>
              /\ Get(h).value = Null
              /\ AfterGet(h)[h] = Null
              /\ \A k \in Keys : k # h => AfterGet(h)[k] = cache[k]
              /\ getFromCache(AfterGet(h), lastSettingsChange, now, h)
                    = [value |-> Null, remove |-> FALSE]
        /\ (Stored(h) /\ Age(h) = CACHE_EXPIRE_MS) =>
              /\ Get(h).value # Null
              /\ AfterGet(h) = cache

\* getFromCache has removed the expired entry of a.com: pruneCache would
\* have removed the expired entry of b.com with it
C17_Witness ==
    /\ ~Stored("a.com")
    /\ Stored("b.com")
    /\ Age("b.com") > CACHE_EXPIRE_MS

\* C18: staleness without eviction: getFromCache on an entry with
\* CACHE_STALE_MS < age < CACHE_EXPIRE_MS returns it with isStale = true
\* and leaves it stored; an entry with age <= CACHE_STALE_MS written after
\* the last settings change is returned with isStale = false.
C18_StaleNotEvicted ==
    \A h \in TwoHosts :
        /\ (Stored(h) /\ Age(h) > CACHE_STALE_MS /\ Age(h) < CACHE_EXPIRE_MS) =>
              /\ Get(h).value # Null
              /\ Get(h).value.isStale
              /\ AfterGet(h) = cache
        /\ (/\ Stored(h)
            /\ Age(h) <= CACHE_STALE_MS
            /\ cache[h].timestamp > lastSettingsChange) =>
              /\ Get(h).value # Null
              /\ ~Get(h).value.isStale
              /\ AfterGet(h) = cache

C18_Witness ==
    /\ lastSettingsChange > 0
    /\ Stored("a.com")
    /\ Age("a.com") = CACHE_STALE_MS + 1
    /\ cache["a.com"].timestamp > lastSettingsChange
    /\ Get("a.com").value.isStale
    /\ Stored("b.com")
    /\ Age("b.com") = 1
    /\ cache["b.com"].timestamp > lastSettingsChange
    /\ ~Get("b.com").value.isStale

\* C19: pruneCache removes every cache entry whose age exceeds
\* CACHE_EXPIRE_MS and nothing else: every entry getFromCache would still
\* return and every key that is not a cache key keeps its value, and
\* afterwards no stored cache entry is older than CACHE_EXPIRE_MS.
Pruned == pruneCache(cache, now)

PruneEffect ==
    /\ DOMAIN Pruned = DOMAIN cache
    /\ \A h \in Hosts :
          /\ (Stored(h) /\ Age(h) > CACHE_EXPIRE_MS) => Pruned[h] = Null
          /\ ~(Stored(h) /\ Age(h) > CACHE_EXPIRE_MS) => Pruned[h] = cache[h]
          /\ Get(h).value # Null => Pruned[h] = cache[h]
          /\ Pruned[h] # Null => now - Pruned[h].timestamp <= CACHE_EXPIRE_MS
    /\ \A k \in Keys \ Hosts : Pruned[k] = cache[k]

C19_PruneFrame ==
    []PruneEffect
    /\ [][onStartup =>
            /\ cache' = Pruned
            /\ \A h \in Hosts :
                  cache'[h] # Null => now' - cache'[h].timestamp <= CACHE_EXPIRE_MS
            /\ cache'[OtherKey] = OtherValue
         ]_vars

\* pruneCache has run: the expired entry of c.com, which getFromCache is
\* never called for, is gone; the stale entry of a.com, the fresh entry of
\* b.com and the other key are still stored.
C19_Witness ==
    /\ ~Stored("c.com")
    /\ Stored("a.com")
    /\ Age("a.com") > CACHE_STALE_MS
    /\ Get("a.com").value # Null
    /\ Stored("b.com")
    /\ cache["b.com"].timestamp = now
    /\ cache[OtherKey] = OtherValue
    /\ now - cache[OtherKey].timestamp > CACHE_EXPIRE_MS

\* ------------------------------------------------------------------------
\* Properties of the source registry (SourcesSpec)
\* ------------------------------------------------------------------------
Records == migrateSources(sources)
RecordOf(d) == Records[CHOOSE i \in 1..Len(Records) : Records[i].domain = d]
CountOf(st) == Cardinality({i \in 1..Len(Records) : Records[i].state = st})
DomainsOf(st) == {Records[i].domain : i \in {j \in 1..Len(Records) : Records[j].state = st}}

\* C20: getActiveSources(records, maxProviders) returns first every domain
\* with state on, by visits descending, then the top
\* max(0, maxProviders - count(on)) domains with state auto (all of them
\* when there are fewer), by visits descending; it returns no domain with
\* state off and at most max(maxProviders, count(on)) domains.
ActiveOK(res, m) ==
    LET nOn == CountOf("on")
        k == Min(Max(0, m - nOn), CountOf("auto"))
    IN /\ Len(res) = nOn + k
       /\ {res[i] : i \in 1..nOn} = DomainsOf("on")
       /\ {res[i] : i \in (nOn + 1)..(nOn + k)} \subseteq DomainsOf("auto")
       /\ \A i, j \in 1..Len(res) : i # j => res[i] # res[j]
       /\ \A i, j \in 1..nOn :
             i < j => RecordOf(res[i]).visits >= RecordOf(res[j]).visits
       /\ \A i, j \in (nOn + 1)..(nOn + k) :
             i < j => RecordOf(res[i]).visits >= RecordOf(res[j]).visits
       /\ \A d \in DomainsOf("auto") :
             (\A i \in 1..Len(res) : res[i] # d) =>
                 \A i \in (nOn + 1)..(nOn + k) :
                     RecordOf(res[i]).visits >= RecordOf(d).visits
       /\ \A i \in 1..Len(res) : RecordOf(res[i]).state # "off"
       /\ Len(res) <= Max(m, nOn)

C20_ActiveDomains ==
    /\ \A m \in (0 - 1)..(MaxProviders + 1) :
          ActiveOK(getActiveSources(sources, m), m)
    /\ \A i \in 1..MaxLoops :
          (loops[i].pc = "fetch" /\ loops[i].sources = sources) =>
              ActiveOK(loops[i].cleanSourceDomains, loops[i].limitProviders)

C20_Witness ==
    /\ sources = <<Source("www.x.org", "auto", 1), Source("y.org", "auto", 2),
                   Source("x.org", "on", 0)>>
    /\ loops[1].pc = "fetch"
    /\ loops[1].limitProviders = 2
    /\ loops[1].cleanSourceDomains = <<"x.org", "y.org">>

\* A request built from the registry of the example with limit m
ExampleRequest(i, m) ==
    /\ loops[i].pc = "fetch"
    /\ loops[i].sources \in ExampleRegistries
    /\ loops[i].limitProviders = m

\* C21 (as claimed): for the records [{a,on,5},{b,auto,100},{c,auto,1},
\* {d,off,999}] and maxProviders = 1 getActiveSources returns [a, b].
C21_ExampleAB ==
    /\ getActiveSources(Example, 1) = <<"a", "b">>
    /\ \A i \in 1..MaxLoops :
          ExampleRequest(i, 1) => loops[i].cleanSourceDomains = <<"a", "b">>

\* C21: for the records of the example and maxProviders = 1
\* getActiveSources returns [a]: the on record a takes the only slot; with
\* maxProviders = 2 it returns [a, b], and d is never returned.
C21_ExampleA ==
    /\ getActiveSources(Example, 1) = <<"a">>
    /\ getActiveSources(Example, 2) = <<"a", "b">>
    /\ \A i \in 1..MaxLoops :
          /\ ExampleRequest(i, 1) => loops[i].cleanSourceDomains = <<"a">>
          /\ ExampleRequest(i, 2) => loops[i].cleanSourceDomains = <<"a", "b">>
          /\ ExampleRequest(i, 3) => loops[i].cleanSourceDomains = <<"a", "b", "c">>

C21_Witness ==
    /\ sources = Example
    /\ loops[1].pc = "fetch"
    /\ loops[1].sources = Example
    /\ loops[1].limitProviders = 1
    /\ loops[1].cleanSourceDomains = <<"a">>

\* C22: migration is idempotent: for every raw list (legacy strings,
\* records, empty, absent) migrateSources(migrateSources(raw)) equals
\* migrateSources(raw), also for the list checkAndIncrementVisits stores.
C22_MigrateIdempotent ==
    /\ migrateSources(migrateSources(sources)) = migrateSources(sources)
    /\ migrateSources(migrateSources(Absent)) = migrateSources(Absent)
    /\ migrateSources(migrateSources(<<>>)) = migrateSources(<<>>)
    /\ \A h \in VisitHosts :
          migrateSources(VisitedSources(sources, h))
             = VisitedSources(migrateSources(sources), h)

\* a legacy list has been migrated and stored by a visit
C22_Witness ==
    /\ loops[1].pc = "fetch"
    /\ loops[1].sources = <<Legacy("y.org"), Legacy("www.x.org"), Legacy("x.org")>>
    /\ sources = <<Source("y.org", "on", 0), Source("www.x.org", "on", 1),
                   Source("x.org", "on", 0)>>

\* C23: lossless legacy upgrade: migrateSources of a list of n strings has
\* n records in the same order, the i-th with the i-th string as domain,
\* state on and visits 0.
IsLegacyList(srcs) == Len(srcs) > 0 /\ \A i \in 1..Len(srcs) : IsString(srcs[i])

C23_LosslessUpgrade ==
    /\ IsLegacyList(sources) =>
          /\ Len(migrateSources(sources)) = Len(sources)
          /\ \A i \in 1..Len(sources) :
                migrateSources(sources)[i]
                   = [domain |-> sources[i].string, state |-> "on", visits |-> 0]
    /\ [][\A h \in VisitHosts :
            (checkAndIncrementVisits(h) /\ IsLegacyList(sources)
               /\ sources' # sources) =>
                /\ Len(sources') = Len(sources)
                /\ \A i \in 1..Len(sources) :
                      /\ sources'[i].domain = sources[i].string
                      /\ sources'[i].state = "on"
                      /\ sources'[i].visits \in {0, 1}
         ]_vars

\* a legacy list of three strings is stored
C23_Witness ==
    /\ sources = <<Legacy("y.org"), Legacy("www.x.org"), Legacy("x.org")>>
    /\ loops[1].pc = "fetch"
    /\ loops[1].cleanSourceDomains = <<"y.org", "www.x.org", "x.org">>

\* h is a strict subdomain of d, on the host names of the model
StrictSubdomain(h, d) == h = "www.x.org" /\ d = "x.org"
Related(h, d) == h = d \/ StrictSubdomain(h, d) \/ StrictSubdomain(d, h)
Visited(h) == VisitedSources(sources, h)

\* C24 (as claimed): on a navigation to h every record whose domain equals
\* h, has h as a strict subdomain or is a strict subdomain of h gets
\* visits + 1, the other records are unchanged, and without a match the
\* registry is not written.
C24_EveryMatch ==
    \A h \in VisitHosts :
        IF \E i \in 1..Len(Records) : Related(h, Records[i].domain)
        THEN /\ Len(Visited(h)) = Len(Records)
             /\ \A i \in 1..Len(Records) :
                   Visited(h)[i] =
                      IF Related(h, Records[i].domain)
                      THEN [Records[i] EXCEPT !.visits = @ + 1]
                      ELSE Records[i]
        ELSE Visited(h) = sources

\* C24: on a navigation to h the first record, in registry order, whose
\* domain equals h, has h as a strict subdomain or is a strict subdomain of
\* h gets visits + 1; every other record, matching or not, is unchanged;
\* without a match the registry is not written.
FirstRelated(h) ==
    CHOOSE i \in 1..Len(Records) :
        /\ Related(h, Records[i].domain)
        /\ \A j \in 1..(i - 1) : ~Related(h, Records[j].domain)

VisitOK(h, after) ==
    IF \E i \in 1..Len(Records) : Related(h, Records[i].domain)
    THEN /\ Len(after) = Len(Records)
         /\ \A i \in 1..Len(Records) :
               after[i] = IF i = FirstRelated(h)
                          THEN [Records[i] EXCEPT !.visits = @ + 1]
                          ELSE Records[i]
    ELSE after = sources

C24_FirstMatch ==
    (\A h \in VisitHosts : VisitOK(h, Visited(h)))
    /\ [][\A h \in VisitHosts : checkAndIncrementVisits(h) => VisitOK(h, sources')]_vars

\* x.org has been visited up to MaxVisits; the record of www.x.org behind
\* it matches the same navigations and was never counted
C24_Witness ==
    sources = <<Source("x.org", "auto", MaxVisits), Source("www.x.org", "on", 0)>>

\* ------------------------------------------------------------------------
\* Properties of the registry under the scheduler (RegistrySpec)
\* ------------------------------------------------------------------------
StoredDomains ==
    {migrateSources(sources)[i].domain : i \in 1..Len(migrateSources(sources))}

\* the answer r to the lookup of invocation i reports a source
ReportsSource(i, r) == FetchReturns(i, r) /\ Thrown(r) = Null /\ r.isSource

\* C25: auto-add guard: when the lookup of h reports isSource = true, the
\* record {domain: h, state: auto, visits: 0} is appended if and only if no
\* record of the registry read for the lookup matches h by equal domain or
\* by suffix in either direction.
C25_AutoAddGuard ==
    [][\A i \in 1..MaxLoops, r \in Responses :
        ReportsSource(i, r) =>
            LET registry == migrateSources(loops[i].sources)
                h == loops[i].host
            IN IF \E k \in 1..Len(registry) : Related(h, registry[k].domain)
               THEN sources' = sources
               ELSE sources' = Append(registry, Source(h, "auto", 0))
      ]_vars

\* C26: source records are never removed by the engine: no step of the
\* scheduler, of a lookup or of a navigation takes a domain out of the
\* stored registry, also not a domain the user added while a lookup was in
\* flight.
C26_NeverDeleted == [][StoredDomains \subseteq StoredDomains']_vars

\* C27: domain uniqueness: the stored registry never has two records with
\* the same domain.
C27_UniqueDomains == Distinct(migrateSources(sources))

\* www.x.org has been counted up to MaxVisits and x.org was added by the
\* lookup that reported it as a source
C27_Witness ==
    sources = <<Source("www.x.org", "on", MaxVisits), Source("x.org", "auto", 0)>>

\* ------------------------------------------------------------------------
\* Mutual exclusion of the scheduler loop (Spec)
\* ------------------------------------------------------------------------
Running == {i \in 1..MaxLoops : loops[i] # Idle}
InFlight == {i \in 1..MaxLoops : loops[i].pc = "fetch"}

\* C28: the scheduler loop is never running twice: at most one invocation
\* of processQueue is suspended at an await or waits for its retry timer,
\* it belongs to the active Task, and so at most one lookup is in flight.
C28_SingleLoop ==
    /\ Cardinality(Running) <= 1
    /\ Cardinality(InFlight) <= 1
    /\ Running # {} => currentTask # Null

\* a Task was enqueued while the active one waited for its retry timer; the
\* timer has fired and the second lookup of the active Task is in flight
C28_Witness ==
    /\ currentTask # Null
    /\ currentTask.retryAttempts = 1
    /\ Len(queryQueue) = 1
    /\ Cardinality(InFlight) = 1

\* ------------------------------------------------------------------------
\* Navigation handling (NavSpec)
\* ------------------------------------------------------------------------
IsHttp(url) == url # NoUrl /\ url.scheme \in {"http", "https"}

\* what handleNavigation must call for a url whose hostname has the cache
\* lookup result cached
ExpectedCalls(tabId, url, cached) ==
    IF ~IsHttp(url) THEN <<>>
    ELSE IF cached = Null THEN <<QueueCall(url.hostname, FALSE, tabId)>>
    ELSE IF cached.isStale
    THEN <<BadgeCall(tabId, cached.reviews), QueueCall(url.hostname, FALSE, tabId)>>
    ELSE <<BadgeCall(tabId, cached.reviews)>>

\* a navigation step that creates a Task
NavCreates(tabId, url) == handleNavigation(tabId, url) /\ nextSeq' # nextSeq

\* C29: navigation handling: for every tab and url, in every reachable
\* state, the handler calls addToQueue(hostname, false, tabId) exactly when
\* the url is http(s) and the cache lookup gives nothing or a stale entry; a
\* fresh entry is shown and not enqueued, a stale entry is shown first and
\* enqueued after; and a navigation that creates a Task creates it for the
\* url's hostname, without forceRefresh, for the tab.
C29_Navigation ==
    /\ [](\A tabId \in TabIds, url \in Urls :
            NavCalls(cache, lastSettingsChange, now, tabId, url) =
                ExpectedCalls(tabId, url,
                    IF IsHttp(url) THEN Get(url.hostname).value ELSE Null))
    /\ [][\A tabId \in TabIds, url \in Urls :
            NavCreates(tabId, url) =>
                LET cached == Get(url.hostname).value
                    created == IF currentTask' # Null /\ currentTask'.seq = nextSeq
                               THEN currentTask'
                               ELSE queryQueue'[Len(queryQueue')]
                IN /\ cached = Null \/ cached.isStale
                   /\ created.hostname = url.hostname
                   /\ ~created.forceRefresh
                   /\ created.tabId = tabId
                   /\ cached # Null =>
                        lastPush' = [tabId |-> tabId, reviews |-> cached.reviews]
      ]_vars

\* the stale entry of a.com was shown on tab 2 and a.com was enqueued for
\* the tab behind the lookup of x.org
C29_Witness ==
    /\ currentTask # Null
    /\ currentTask.hostname = "x.org"
    /\ Len(queryQueue) = 1
    /\ queryQueue[1].hostname = "a.com"
    /\ queryQueue[1].tabId = 2
    /\ lastPush = [tabId |-> 2, reviews |-> <<"old">>]
    /\ cache["a.com"] # Null

\* ------------------------------------------------------------------------
\* Failed lookups and the cache (Spec)
\* ------------------------------------------------------------------------
\* the answer is a failure: no response, a status other than 200, or a
\* body or a text that is not JSON
Failed(r) == ~r.ok \/ r.status # 200 \/ ~r.bodyJson \/ ~r.textJson

LookupFails(i, r) == FetchReturns(i, r) /\ Failed(r)

\* the lookup of invocation i is sent
LookupStarts(i) == loops[i].pc = "settings" /\ loops'[i].pc = "fetch"

\* C30: a failed lookup never destroys cached data: from the start of the
\* lookup of h to its failure (503 or terminal) the stored cache is what it
\* was, so getFromCache(h) answers after the failure what it answered
\* before, and a terminal failure leaves its message in lastError.
C30_FailureKeepsCache ==
    [][\A i \in 1..MaxLoops :
        /\ LookupStarts(i) => cache' = cache
        /\ \A r \in Responses :
             LookupFails(i, r) =>
                /\ cache' = cache
                /\ getFromCache(cache', lastSettingsChange', now', loops[i].host)
                     = Get(loops[i].host)
                /\ ~Is503(r) => lastError' # NoError
      ]_vars

\* the forced lookup of a.com failed for good: the error is shown and the
\* stale entry of a.com is still served
C30_Witness ==
    /\ lastError = "API Error: 500"
    /\ SchedulerIdle
    /\ served = <<1>>
    /\ Stored("a.com")
    /\ cache["a.com"].reviews = <<"old">>
    /\ Get("a.com").value # Null
    /\ Get("a.com").value.isStale

\* ------------------------------------------------------------------------
\* Force refresh (Spec)
\* ------------------------------------------------------------------------
\* invocation i is on the cache-hit skip path: it waits for the cache read
\* of sw.js:190 or for the badge of a hit
OnSkipPath(i) ==
    \/ loops[i].pc = "getCache"
    \/ loops[i].pc = "badge" /\ loops[i].path = "hit"

\* a Task enters the slot with forceRefresh set
ForcedEnters == served' # served /\ currentTask'.forceRefresh

\* C31: force refresh overrides the cache: while the active Task has
\* forceRefresh set no invocation is on the cache-hit skip path, and a Task
\* that enters the slot with forceRefresh set, at creation or by a merge
\* while it was queued, goes straight to the lookup of its hostname.
C31_ForceRefresh ==
    /\ [](\A i \in 1..MaxLoops :
            (currentTask # Null /\ currentTask.forceRefresh) => ~OnSkipPath(i))
    /\ [][ForcedEnters =>
            \E i \in 1..MaxLoops :
                /\ loops'[i].pc = "settings"
                /\ loops'[i].host = currentTask'.hostname]_vars

\* the second Task, a.com with forceRefresh, is being looked up although
\* the cache holds a fresh entry of a.com
C31_Witness ==
    /\ currentTask # Null
    /\ currentTask.hostname = "a.com"
    /\ currentTask.forceRefresh
    /\ currentTask.seq = 2
    /\ \E i \in 1..MaxLoops : loops[i].pc = "fetch"
    /\ Get("a.com").value # Null
    /\ ~Get("a.com").value.isStale

\* ------------------------------------------------------------------------
\* Upstream statuses (Spec)
\* ------------------------------------------------------------------------
\* the upstream answered with status 503, whatever the body
Answers503(r) == r.ok /\ r.status = 503

\* C32: every answer with status 503 leads to the retry path, whatever its
\* body: the Task stays in the slot with one more attempt, a retry timer
\* is set, and lastError is not touched.
C32_503Retries ==
    [][\A i \in 1..MaxLoops, r \in Responses :
        (FetchReturns(i, r) /\ Answers503(r)) =>
            /\ currentTask' # Null
            /\ currentTask'.hostname = currentTask.hostname
            /\ currentTask'.retryAttempts = currentTask.retryAttempts + 1
            /\ loops'[i].pc = "timer"
            /\ lastError' = lastError
      ]_vars

\* ------------------------------------------------------------------------
\* The GET_STATUS snapshot (StatusSpec)
\* ------------------------------------------------------------------------
\* C33: getStatus returns a consistent snapshot: the queue, currentTask and
\* lastError of every GET_STATUS response are together a state the
\* scheduler has been in.
C33_ConsistentSnapshot ==
    delivered # Null =>
        Payload(delivered.queue, delivered.currentTask, delivered.lastError) \in seen

\* ------------------------------------------------------------------------
\* The earlier scheduler (EarlySpec)
\* ------------------------------------------------------------------------
\* invocation i works on the Task it shifted, under that Task's hostname
OwnTask(i) ==
    /\ currentTask # Null
    /\ currentTask.seq = loops[i].task.seq
    /\ loops[i].pc \in {"getCache", "lookup", "readBack"} =>
            loops[i].host = loops[i].task.hostname

\* C34: in the earlier scheduler a cache-hit skip never leaves two Tasks
\* in process at once, and every invocation, the one started right after
\* a skip included, works on the Task in the slot and looks it up under
\* its own hostname.
C34_SkipKeepsOneLoop ==
    /\ Cardinality(Running) <= 1
    /\ \A i \in Running : OwnTask(i)

\* ------------------------------------------------------------------------
\* Queue and slot (QueueSpec)
\* ------------------------------------------------------------------------
\* C35: no queued work waits behind an empty slot: in every state between
\* two steps a non-empty queue implies a Task in the slot.
C35_NoIdleBacklog == Len(queryQueue) > 0 => currentTask # Null

\* the first Task is done and its badge set, the second was shifted into
\* the slot and the third still waits behind it
C35_Witness ==
    /\ served = <<1, 2>>
    /\ lastPush # Null
    /\ Len(queryQueue) = 1
    /\ queryQueue[1].seq = 3
    /\ currentTask # Null
    /\ currentTask.seq = 2

\* ------------------------------------------------------------------------
\* Settings changed during a lookup (RegistrySpec)
\* ------------------------------------------------------------------------
StoredRecords == {Records[k] : k \in 1..Len(Records)}

\* the lookup of some invocation completes
LookupCompletes == \E i \in 1..MaxLoops, r \in Responses : FetchReturns(i, r)

\* C36: a change of the registry committed while a lookup is in flight is
\* still in effect after the lookup: the step that completes a lookup keeps
\* every stored record with its state and its visits, also when it adds
\* the hostname looked up.
C36_ChangesSurvive ==
    [][LookupCompletes => StoredRecords \subseteq StoredRecords']_vars

\* ------------------------------------------------------------------------
\* The frame of a successful lookup (Spec)
\* ------------------------------------------------------------------------
GetNext(g) == getFromCache(cache', lastSettingsChange', now', g)
Fresh(g) == Get(g).value # Null /\ ~Get(g).value.isStale
FreshNext(g) == GetNext(g).value # Null /\ ~GetNext(g).value.isStale

\* the answer r to the lookup of invocation i is a success
Succeeds(i, r) == FetchReturns(i, r) /\ ~Failed(r)

\* the successful answer makes the lookup add its hostname to the registry
AutoAdds(i, r) == Succeeds(i, r) /\ loops'[i].pc = "save"

\* C37 as stated: a successful lookup of h leaves every other hostname
\* that was fresh before it fresh, also when it adds h to the registry.
C37_OthersStayFresh ==
    [][\A i \in 1..MaxLoops :
        ((\E r \in Responses : Succeeds(i, r)) \/ AutoAdded(i)) =>
            \A g \in Hosts \ {loops[i].host} : Fresh(g) => FreshNext(g)
      ]_vars

\* C37 as the code has it: a successful lookup of h changes the stored
\* cache only at h, and getFromCache answers for every other hostname what
\* it answered before, unless the lookup adds h to the registry: then
\* lastSettingsChange becomes the present time and every other entry that
\* was written before it is returned stale, none being removed.
C37_OthersKeptOrFlagged ==
    [][\A i \in 1..MaxLoops :
        /\ \A r \in Responses :
             Succeeds(i, r) =>
                /\ \A g \in Hosts \ {loops[i].host} : cache'[g] = cache[g]
                /\ IF AutoAdds(i, r)
                   THEN /\ lastSettingsChange' = now
                        /\ \A g \in Hosts \ {loops[i].host} :
                             (Get(g).value # Null /\ cache[g].timestamp < now) =>
                                /\ GetNext(g).value # Null
                                /\ GetNext(g).value.isStale
                   ELSE \A g \in Hosts \ {loops[i].host} : GetNext(g) = Get(g)
        /\ AutoAdded(i) =>
             \A g \in Hosts \ {loops[i].host} :
                cache'[g] = cache[g] /\ GetNext(g) = Get(g)
      ]_vars

\* the lookup of b.com has added b.com to the registry and stored its
\* entry; the entry of a.com, one second old, is now returned stale
C37_Witness ==
    /\ Stored("b.com")
    /\ sources = <<Source("b.com", "auto", 0)>>
    /\ lastSettingsChange = now
    /\ Stored("a.com")
    /\ Age("a.com") = 1
    /\ Get("a.com").value.isStale
    /\ ~Get("b.com").value.isStale

\* ------------------------------------------------------------------------
\* lastError (Spec)
\* ------------------------------------------------------------------------
\* invocation i completes its Task after a cache hit / after a lookup
SkipCompletes(i) == loops[i].pc = "badge" /\ loops[i].path = "hit" /\ BadgeDone(i)
LookupSucceeds(i) == loops[i].pc = "badge" /\ loops[i].path = "fresh" /\ BadgeDone(i)

\* the lookup of invocation i fails with an error that has no status 503
FailsForGood(i, r) == LookupFails(i, r) /\ ~Is503(r)

\* C38 as stated: every successful completion of a Task, by lookup or by
\* cache-hit skip, leaves lastError null.
C38_SuccessClears ==
    [][\A i \in 1..MaxLoops :
        (SkipCompletes(i) \/ LookupSucceeds(i)) => lastError' = NoError]_vars

\* C38 as the code has it: a lookup that succeeds clears lastError, a
\* lookup that fails without status 503 sets it to the error's message, a
\* cache-hit skip leaves it as it is, and no other step changes it.
C38_LastErrorOfLookups ==
    [][/\ \A i \in 1..MaxLoops :
            /\ LookupSucceeds(i) => lastError' = NoError
            /\ SkipCompletes(i) => lastError' = lastError
            /\ \A r \in Responses :
                 FailsForGood(i, r) =>
                    lastError' = Thrown(r).message /\ lastError' # NoError
       /\ lastError' # lastError =>
            \E i \in 1..MaxLoops :
                LookupSucceeds(i) \/ \E r \in Responses : FailsForGood(i, r)
      ]_vars

\* the first Task failed for good; the second was served from the cache
\* and is gone, and the error of the first is still the last error
C38_Witness ==
    /\ SchedulerIdle
    /\ served = <<1, 2>>
    /\ lastError = "API Error: 500"
    /\ lastPush # Null
    /\ lastPush.reviews = <<"old">>
    /\ lastBroadcast.currentTask # Null
    /\ lastBroadcast.currentTask.seq = 2
    /\ lastBroadcast.lastError = "API Error: 500"

====
